---- MODULE Spec2Model ----
(***************************************************************************)
(* Model of the Open edX session-bridging proxy (src/fastapi_edx/main.py). *)
(*                                                                         *)
(* Text (URLs, headers, HTML, request bodies) is a sequence of tokens.     *)
(* Every character the code searches for or splits on ("/", "?", "&",      *)
(* "#", the double quote, white space, ...) is a token of its own, so a    *)
(* substring test of the code is a subsequence test here.  Cookie values,  *)
(* e-mail addresses and passwords are never parsed by the code and are     *)
(* plain strings; "" stands for an absent (None) or empty value, which     *)
(* Python's truth tests treat alike.                                       *)
(***************************************************************************)
EXTENDS Integers, Sequences, FiniteSets, TLC

VARIABLES
    links,      \* the UserLink table: rows [link_id, email]
    tokens,     \* the UserToken table: rows [email, access_token, password]
    phase,      \* "ready": a request is waiting; "done": it was handled
    req,        \* the inbound request
    up,         \* what the upstream answers to the handler's calls
    resp,       \* the response of the handler
    out,        \* the upstream calls the handler made, in order
    resolved,   \* the handler's local link_id after identity resolution
    inflight    \* the handlers in progress: the request of each and what it
                \* has read so far

vars == <<links, tokens, phase, req, up, resp, out, resolved, inflight>>

(***************************************************************************)
(* Configuration (main.py:58-68), with the defaults of the source.         *)
(***************************************************************************)
FASTAPI_PUBLIC_BASE_URL == <<"http:", "/", "/", "localhost", ":8000">>
OPENEDX_API_BASE == <<"http:", "/", "/", "localhost", ":18000">>
LEARNING_MFE_URL == <<"http:", "/", "/", "localhost", ":2000">>
DEFAULT_USER_PASSWORD == "ChangeMe!2345"

Q == "\""

(***************************************************************************)
(* Python string primitives on token sequences.                            *)
(***************************************************************************)
\* s.startswith(p)
StartsWith(s, p) == Len(s) >= Len(p) /\ SubSeq(s, 1, Len(p)) = p

\* s.find(m) from position `from` (1-based); 0 when m does not occur
Find(s, m, from) ==
    LET hits == {i \in from..(Len(s) - Len(m) + 1) : SubSeq(s, i, i + Len(m) - 1) = m}
    IN  IF hits = {} THEN 0 ELSE CHOOSE i \in hits : \A j \in hits : i <= j

\* m in s
Contains(s, m) == Find(s, m, 1) # 0

\* s.split(m)[0]
Split0(s, m) ==
    LET i == Find(s, m, 1) IN IF i = 0 THEN s ELSE SubSeq(s, 1, i - 1)

\* s.split(m)[1], for s containing m
Split1(s, m) ==
    LET i == Find(s, m, 1) IN Split0(SubSeq(s, i + Len(m), Len(s)), m)

\* "?" in url decides the separator put before link_id=...
WithLinkId(url, link_id) ==
    url \o (IF Contains(url, <<"?">>) THEN <<"&">> ELSE <<"?">>) \o <<"link_id=">> \o link_id

(***************************************************************************)
(* The two tables (db.py is imported by main.py:17; rows in insertion      *)
(* order, .first() returns the first matching row).                        *)
(***************************************************************************)
FirstRow(table, P(_)) ==
    LET hits == {i \in 1..Len(table) : P(table[i])}
    IN  IF hits = {} THEN 0 ELSE CHOOSE i \in hits : \A j \in hits : i <= j

LinkById(ls, id) == FirstRow(ls, LAMBDA r : r.link_id = id)
LinkByEmail(ls, e) == FirstRow(ls, LAMBDA r : r.email = e)
TokenByEmail(ts, e) == FirstRow(ts, LAMBDA r : r.email = e)
TokenByCookie(ts, c) == FirstRow(ts, LAMBDA r : r.access_token = c)

(***************************************************************************)
(* Link Resolver: the four strategies of openedx_proxy / openedx_proxy_post*)
(***************************************************************************)
\* Strategy 1: the referer
RefererLinkId(referer) ==
    IF referer = <<>> THEN <<>>
    ELSE IF Contains(referer, <<"/", "dashboard-proxy", "/">>)
    THEN Split0(Split0(Split0(Split1(referer, <<"/", "dashboard-proxy", "/">>),
                              <<"?">>), <<"#">>), <<"/">>)
    ELSE IF Contains(referer, <<"/", "access", "/">>)
    THEN Split0(Split0(Split0(Split1(referer, <<"/", "access", "/">>),
                              <<"?">>), <<"#">>), <<"/">>)
    ELSE IF Contains(referer, <<"/", "openedx-proxy", "/">>)
            /\ Contains(referer, <<"link_id=">>)
    THEN Split0(Split0(Split1(referer, <<"link_id=">>), <<"&">>), <<"#">>)
    ELSE <<>>

\* request.cookies.get("lms_sessionid") or request.cookies.get("sessionid")
RequestSessionCookie(rq) == IF rq.ck_lms # "" THEN rq.ck_lms ELSE rq.ck_sid

\* Strategy 4: reverse lookup of the request's session cookie
SessionLinkId(ls, ts, rq) ==
    LET c == RequestSessionCookie(rq)
        t == TokenByCookie(ts, c)
        l == IF t = 0 THEN 0 ELSE LinkByEmail(ls, ts[t].email)
    IN  IF c = "" \/ t = 0 \/ l = 0 THEN <<>> ELSE ls[l].link_id

\* `if not link_id: link_id = ...`: a strategy runs only while none has yielded
IfNot(link_id, strategy) == IF link_id # <<>> THEN link_id ELSE strategy

\* a resolver that falls back to the first LinkRecord instead of failing
ResolveLinkIdOrFirst(ls, ts, rq) ==
    IfNot(IfNot(IfNot(IfNot(RefererLinkId(rq.referer), rq.ck_link), rq.q_link),
                SessionLinkId(ls, ts, rq)),
          IF ls = <<>> THEN <<>> ELSE ls[1].link_id)

\* a resolver that consults the tracking cookie before the referer
ResolveLinkIdCookieFirst(ls, ts, rq) ==
    IfNot(IfNot(IfNot(rq.ck_link, RefererLinkId(rq.referer)), rq.q_link),
          SessionLinkId(ls, ts, rq))

\* a resolver that consults the query parameter before the tracking cookie
ResolveLinkIdQueryFirst(ls, ts, rq) ==
    IfNot(IfNot(IfNot(RefererLinkId(rq.referer), rq.q_link), rq.ck_link),
          SessionLinkId(ls, ts, rq))

ResolveLinkId(ls, ts, rq) ==
    IfNot(IfNot(IfNot(RefererLinkId(rq.referer), rq.ck_link), rq.q_link),
          SessionLinkId(ls, ts, rq))

(***************************************************************************)
(* Content Rewriter: the re.sub calls of the 200 branch.                   *)
(***************************************************************************)
\* the characters excluded by the class [^"\s'<>]
UrlStop == {Q, " ", "\n", "\r", "\t", "'", "<", ">"}

\* the leftmost of a non-empty set of positions
Least(S) == CHOOSE i \in S : \A j \in S : i <= j

\* length of the longest prefix of s made of tokens outside `stop`
RunLen(s, stop) ==
    LET ends == {i \in 1..Len(s) : s[i] \in stop}
    IN  IF ends = {} THEN Len(s) ELSE (CHOOSE i \in ends : \A j \in ends : i <= j) - 1

\* re.sub(lit + '([^"\s\'<>]+)' or '...*)', pre + [\1] + post, s)
RECURSIVE ReSubUrl(_, _, _, _, _, _)
ReSubUrl(s, lit, plus, pre, useGroup, post) ==
    LET After(i) == SubSeq(s, i + Len(lit), Len(s))
        hits == {i \in 1..(Len(s) - Len(lit) + 1) :
                    /\ SubSeq(s, i, i + Len(lit) - 1) = lit
                    /\ (~plus \/ RunLen(After(i), UrlStop) > 0)}
    IN  IF hits = {} THEN s
        ELSE LET i == Least(hits)
                 rest == After(i)
                 n == RunLen(rest, UrlStop)
             IN  SubSeq(s, 1, i - 1)
                 \o pre \o (IF useGroup THEN SubSeq(rest, 1, n) ELSE <<>>) \o post
                 \o ReSubUrl(SubSeq(rest, n + 1, Len(rest)), lit, plus, pre, useGroup, post)

\* main.py:1225-1245 and 1786-1806: learning micro-app URLs become proxy URLs
RewriteMfeUrls(content, link_id) ==
    LET proxy == FASTAPI_PUBLIC_BASE_URL \o <<"/", "openedx-proxy", "/">>
        dash == proxy \o <<"dashboard", "?", "link_id=">> \o link_id
        c1 == ReSubUrl(content, LEARNING_MFE_URL \o <<"/", "course", "/">>, TRUE,
                       proxy \o <<"courses", "/">>, TRUE,
                       <<"/", "courseware", "?", "link_id=">> \o link_id)
        c2 == ReSubUrl(c1, LEARNING_MFE_URL, FALSE, dash, FALSE, <<>>)
        c3 == ReSubUrl(c2, <<"http:", "/", "/", "localhost", ":2000">>, FALSE, dash, FALSE, <<>>)
    IN  ReSubUrl(c3, <<"https:", "/", "/", "localhost", ":2000">>, FALSE, dash, FALSE, <<>>)

\* url_path.startswith('http')
StartsWithHttp(s) == s # <<>> /\ s[1] \in {"http:", "https:"}

\* an href callback whose static branch tests the path with its leading "/"
AddLinkIdToHrefStatic(url_path, whole, link_id) ==
    IF Contains(url_path, <<"?">>) \/ StartsWithHttp(url_path) THEN whole
    ELSE IF StartsWith(url_path, <<"/", "asset-v1:">>) \/ StartsWith(url_path, <<"/", "static", "/">>)
    THEN <<"href=", Q>> \o FASTAPI_PUBLIC_BASE_URL \o <<"/", "openedx-static">>
         \o url_path \o <<Q>>
    ELSE <<"href=", Q>> \o FASTAPI_PUBLIC_BASE_URL \o <<"/", "openedx-proxy">> \o url_path
         \o <<"?", "link_id=">> \o link_id \o <<Q>>

\* add_link_id_to_href_smart (GET, main.py:1267-1277) and
\* add_link_id_to_href_post (POST, main.py:1809-1817): the same function
AddLinkIdToHref(url_path, whole, link_id) ==
    IF Contains(url_path, <<"?">>) \/ StartsWithHttp(url_path) THEN whole
    ELSE IF StartsWith(url_path, <<"asset-v1:">>) \/ StartsWith(url_path, <<"static", "/">>)
    THEN <<"href=", Q>> \o FASTAPI_PUBLIC_BASE_URL \o <<"/", "openedx-static">>
         \o url_path \o <<Q>>
    ELSE <<"href=", Q>> \o FASTAPI_PUBLIC_BASE_URL \o <<"/", "openedx-proxy">> \o url_path
         \o (IF Contains(url_path, <<"?">>) THEN <<"&">> ELSE <<"?">>)
         \o <<"link_id=">> \o link_id \o <<Q>>

\* add_link_id_to_action (main.py:1258-1263, 1819-1824)
AddLinkIdToAction(url_path, whole, link_id) ==
    IF Contains(url_path, <<"?">>) \/ StartsWithHttp(url_path) THEN whole
    ELSE <<"action=", Q>> \o FASTAPI_PUBLIC_BASE_URL \o <<"/", "openedx-proxy">> \o url_path
         \o (IF Contains(url_path, <<"?">>) THEN <<"&">> ELSE <<"?">>)
         \o <<"link_id=">> \o link_id \o <<Q>>

\* a src callback that emits the static route without the proxy's origin
ReplaceSrcRelative(url_path, whole, link_id) ==
    <<"src=", Q, "/", "openedx-static">> \o url_path \o <<Q>>

\* replace_src (main.py:1284-1288) and replace_src_post (main.py:1829-1833)
ReplaceSrc(url_path, whole, link_id) ==
    IF StartsWithHttp(url_path) THEN whole
    ELSE <<"src=", Q>> \o FASTAPI_PUBLIC_BASE_URL \o <<"/", "openedx-static">>
         \o url_path \o <<Q>>

AttrCallback(attr, url_path, whole, link_id) ==
    CASE attr = "href=" -> AddLinkIdToHref(url_path, whole, link_id)
      [] attr = "action=" -> AddLinkIdToAction(url_path, whole, link_id)
      [] OTHER -> ReplaceSrc(url_path, whole, link_id)

\* re.sub(attr + r'"(/[^"]*)"', callback, s)
RECURSIVE ReSubAttr(_, _, _)
ReSubAttr(s, attr, link_id) ==
    LET hits == {i \in 1..(Len(s) - 2) :
                    SubSeq(s, i, i + 2) = <<attr, Q, "/">> /\ Find(s, <<Q>>, i + 2) # 0}
    IN  IF hits = {} THEN s
        ELSE LET i == Least(hits)
                 j == Find(s, <<Q>>, i + 2)
             IN  SubSeq(s, 1, i - 1)
                 \o AttrCallback(attr, SubSeq(s, i + 2, j - 1), SubSeq(s, i, j), link_id)
                 \o ReSubAttr(SubSeq(s, j + 1, Len(s)), attr, link_id)

\* content.replace('<head>', '<head><base href="{OPENEDX_API_BASE}/">')
RECURSIVE AddBaseTag(_)
AddBaseTag(s) ==
    LET i == Find(s, <<"<", "head", ">">>, 1)
    IN  IF i = 0 THEN s
        ELSE SubSeq(s, 1, i + 2) \o <<"<", "base", " ", "href=", Q>> \o OPENEDX_API_BASE
             \o <<"/", Q, ">">> \o AddBaseTag(SubSeq(s, i + 3, Len(s)))

\* the 200 branch of openedx_proxy (main.py:1221-1293) and the text/html
\* branch of openedx_proxy_post (main.py:1782-1837)
RewriteHtml(content, link_id) ==
    AddBaseTag(ReSubAttr(ReSubAttr(ReSubAttr(RewriteMfeUrls(content, link_id),
                                             "href=", link_id),
                                   "action=", link_id),
                         "src=", link_id))

(***************************************************************************)
(* Responses, outbound upstream requests, cookie forwarding.               *)
(***************************************************************************)
NoCookies == [csrftoken |-> <<>>, lms_sessionid |-> "", sessionid |-> "", edx_link_id |-> <<>>]

\* forward_cookies_from_response (main.py:90-135)
ForwardCookies(u, link_id) ==
    [csrftoken |-> IF u.set_csrf # <<>> THEN u.set_csrf ELSE u.set_edxcsrf,
     lms_sessionid |-> u.set_lms, sessionid |-> u.set_sid, edx_link_id |-> link_id]

Response(status, kind, location, body, cookies) ==
    [status |-> status, kind |-> kind, location |-> location, body |-> body,
     cookies |-> cookies, headers |-> {}]

\* add_iframe_headers (main.py:37-49): the middleware every response passes
AddIframeHeaders(response) ==
    [response EXCEPT !.headers = (@ \ {"X-Content-Type-Options"})
                                 \cup {"X-Frame-Options: ALLOWALL",
                                       "Content-Security-Policy: frame-ancestors *"}]

\* raise HTTPException(status_code, detail)
HttpError(status, detail) == Response(status, "error", <<>>, detail, NoCookies)

\* one upstream call: session.get / session.post with the session's cookies
\* an upstream request that carries the session cookie as lms_sessionid only
OutboundOneName(method, url, session_cookie, csrf_cookie, csrf_header) ==
    [method |-> method, url |-> url,
     lms_sessionid |-> session_cookie, sessionid |-> "",
     csrftoken |-> csrf_cookie, edxcsrftoken |-> csrf_cookie,
     x_csrftoken |-> csrf_header, x_csrf_token |-> csrf_header,
     email |-> "", password |-> ""]

Outbound(method, url, session_cookie, csrf_cookie, csrf_header) ==
    [method |-> method, url |-> url,
     lms_sessionid |-> session_cookie, sessionid |-> session_cookie,
     csrftoken |-> csrf_cookie, edxcsrftoken |-> csrf_cookie,
     x_csrftoken |-> csrf_header, x_csrf_token |-> csrf_header,
     email |-> "", password |-> ""]

RedirectStatuses == {301, 302, 303, 307, 308}

(***************************************************************************)
(* Redirect handling (main.py:1125-1217 and 1618-1697).                    *)
(***************************************************************************)
\* urlparse(location).path
UrlPath(location) ==
    LET afterNetloc ==
            IF StartsWithHttp(location) /\ StartsWith(Tail(location), <<"/", "/">>)
            THEN LET r == SubSeq(location, 4, Len(location))
                 IN  SubSeq(r, RunLen(r, {"/", "?", "#"}) + 1, Len(r))
            ELSE location
    IN  SubSeq(afterNetloc, 1, RunLen(afterNetloc, {"?", "#"}))

\* re.search(r'/course/([^/]+)', mfe_path).group(1); <<>> when there is no match
CourseId(mfe_path) ==
    LET hits == {i \in 1..(Len(mfe_path) - 3) :
                    /\ SubSeq(mfe_path, i, i + 2) = <<"/", "course", "/">>
                    /\ mfe_path[i + 3] # "/"}
    IN  IF hits = {} THEN <<>>
        ELSE LET i == CHOOSE k \in hits : \A j \in hits : k <= j
                 r == SubSeq(mfe_path, i + 3, Len(mfe_path))
             IN  SubSeq(r, 1, RunLen(r, {"/"}))

\* LEARNING_MFE_URL in location or "localhost:2000" in location or ":2000" in location
IsLearningMfe(location) ==
    \/ Contains(location, LEARNING_MFE_URL)
    \/ Contains(location, <<"localhost", ":2000">>)
    \/ Contains(location, <<":2000">>)

\* "/courseware" in path.lower()  (the model's path tokens are lower case)
IsCoursewareRequest(path) == Contains(path, <<"/", "courseware">>)

\* the iframe document of main.py:1157-1173 / 1643-1659 (fixed markup left out)
IframeHtml(mfe_url) ==
    <<"<", "iframe", " ", "src=", Q>> \o mfe_url
    \o <<Q, " ", "allow=", Q, "fullscreen", Q, " ", "allowfullscreen", ">", "</", "iframe", ">">>

\* str.replace(old, new)
RECURSIVE ReplaceAll(_, _, _)
ReplaceAll(s, old, new) ==
    LET i == Find(s, old, 1)
    IN  IF i = 0 THEN s
        ELSE SubSeq(s, 1, i - 1) \o new
             \o ReplaceAll(SubSeq(s, i + Len(old), Len(s)), old, new)

\* a redirect branch that always answers with a redirect through the proxy
HandleRedirectAlways(path, u, link_id) ==
    Response(u.status, "redirect",
             WithLinkId(FASTAPI_PUBLIC_BASE_URL \o <<"/", "openedx-proxy", "/", "dashboard">>,
                        link_id), <<>>, ForwardCookies(u, link_id))

\* The redirect branch; both handlers decide alike: an iframe document for a
\* courseware request redirected to /course/{id} of the learning micro-app, a
\* redirect otherwise.
HandleRedirect(path, u, link_id) ==
    LET location == u.location
        proxy == FASTAPI_PUBLIC_BASE_URL \o <<"/", "openedx-proxy">>
        course_id == IF Contains(UrlPath(location), <<"/", "course", "/">>)
                     THEN CourseId(UrlPath(location)) ELSE <<>>
        cookies == ForwardCookies(u, link_id)
    IN  IF IsLearningMfe(location)
        THEN IF IsCoursewareRequest(path) /\ course_id # <<>>
             THEN Response(200, "html", <<>>,
                           IframeHtml(LEARNING_MFE_URL \o <<"/", "course", "/">> \o course_id),
                           cookies)
             ELSE IF ~IsCoursewareRequest(path) /\ course_id # <<>>
             THEN Response(u.status, "redirect",
                           WithLinkId(proxy \o <<"/", "courses", "/">> \o course_id
                                      \o <<"/", "about">>, link_id), <<>>, cookies)
             ELSE Response(u.status, "redirect",
                           WithLinkId(proxy \o <<"/", "dashboard">>, link_id), <<>>, cookies)
        ELSE IF StartsWith(location, OPENEDX_API_BASE)
        THEN Response(u.status, "redirect",
                      WithLinkId(ReplaceAll(location, OPENEDX_API_BASE, proxy), link_id),
                      <<>>, cookies)
        ELSE IF StartsWith(location, <<"/">>)
                /\ ~StartsWith(location, <<"/", "openedx-proxy", "/">>)
        THEN Response(u.status, "redirect", WithLinkId(proxy \o location, link_id),
                      <<>>, cookies)
        ELSE Response(u.status, "redirect", location, <<>>, cookies)

(***************************************************************************)
(* GET /openedx-proxy/{path}  (openedx_proxy, main.py:1050-1307).          *)
(* The result is the response and the upstream calls made; the handler     *)
(* writes neither table.                                                   *)
(***************************************************************************)
Result(r, o, id) == [resp |-> r, out |-> o, link_id |-> id]

\* the handler once link_id is resolved
ProxyGet(ls, ts, rq, u, link_id) ==
    LET l == LinkById(ls, link_id)
        t == IF l = 0 THEN 0 ELSE TokenByEmail(ts, ls[l].email)
        url == OPENEDX_API_BASE \o <<"/">> \o rq.path
               \o (IF rq.q_link # <<>> THEN <<"?", "link_id=">> \o rq.q_link ELSE <<>>)
    IN  IF StartsWith(rq.path, <<"static", "/">>) \/ StartsWith(rq.path, <<"asset-v1:">>)
        THEN Result(Response(307, "redirect",
                             FASTAPI_PUBLIC_BASE_URL \o <<"/", "openedx-static", "/">> \o rq.path,
                             <<>>, NoCookies), <<>>, <<>>)
        ELSE IF link_id = <<>>
        THEN Result(HttpError(400, <<"Invalid navigation request - link_id not found">>),
                    <<>>, link_id)
        ELSE IF l = 0 THEN Result(HttpError(404, <<"Invalid link">>), <<>>, link_id)
        ELSE IF t = 0 \/ ts[t].access_token = ""
        THEN Result(HttpError(400, <<"No valid session found">>), <<>>, link_id)
        ELSE LET o == <<Outbound("GET", url, ts[t].access_token, <<>>, <<>>)>>
             IN  IF u.fails > 0
                 THEN Result(HttpError(500, <<"Proxy request failed: ", u.exc>>), o, link_id)
                 ELSE IF u.status \in RedirectStatuses /\ u.location # <<>>
                 THEN Result(HandleRedirect(rq.path, u, link_id), o, link_id)
                 ELSE IF u.status = 200
                 THEN Result(Response(200, "html", <<>>, RewriteHtml(u.body, link_id),
                                      ForwardCookies(u, link_id)), o, link_id)
                 ELSE Result(HttpError(u.status, <<"Open edX request failed">>), o, link_id)

OpenedxProxy(ls, ts, rq, u) == ProxyGet(ls, ts, rq, u, ResolveLinkId(ls, ts, rq))

(***************************************************************************)
(* POST /openedx-proxy/{path}  (openedx_proxy_post, main.py:1324-1908).    *)
(***************************************************************************)
WhiteSpace == {" ", "\t", "\r", "\n"}

\* str.strip()
Strip(s) ==
    LET keep == {i \in 1..Len(s) : s[i] \notin WhiteSpace}
    IN  IF keep = {} THEN <<>>
        ELSE SubSeq(s, CHOOSE i \in keep : \A j \in keep : i <= j,
                       CHOOSE i \in keep : \A j \in keep : i >= j)

\* tokens consumed by \r?\n\r?\n at the head of s; 0 when it does not match
BlankLine(s) ==
    LET a == IF s # <<>> /\ s[1] = "\r" THEN 1 ELSE 0
        b == IF Len(s) >= a + 2 /\ s[a + 2] = "\r" THEN 1 ELSE 0
    IN  IF Len(s) >= a + b + 2 /\ s[a + 1] = "\n" /\ s[a + b + 2] = "\n"
        THEN a + b + 2 ELSE 0

CsrfFieldName == "name=\"csrfmiddlewaretoken\""

\* re.search(r'name="csrfmiddlewaretoken"\s*\r?\n\r?\n([^\r\n]+)', body_str):
\* <<group(1).strip()>> for the leftmost match, <<>> when nothing matches
MultipartCsrf(body) ==
    LET Group(i, k) ==
            LET r == SubSeq(body, i + 1 + k, Len(body))
                n == BlankLine(r)
                g == SubSeq(r, n + 1, Len(r))
            IN  IF n = 0 THEN <<>> ELSE SubSeq(g, 1, RunLen(g, {"\r", "\n"}))
        Skips(i) == {k \in 0..RunLen(SubSeq(body, i + 1, Len(body)),
                                      {t \in {body[j] : j \in 1..Len(body)} :
                                          t \notin WhiteSpace}) :
                        Group(i, k) # <<>>}
        hits == {i \in 1..Len(body) : body[i] = CsrfFieldName /\ Skips(i) # {}}
    IN  IF hits = {} THEN <<>>
        ELSE LET i == CHOOSE x \in hits : \A y \in hits : x <= y
                 k == CHOOSE x \in Skips(i) : \A y \in Skips(i) : x >= y
             IN  <<Strip(Group(i, k))>>

\* the values of field `key` in an application/x-www-form-urlencoded body,
\* in body order
RECURSIVE FormValues(_, _)
FormValues(body, key) ==
    IF body = <<>> THEN <<>>
    ELSE LET pair == Split0(body, <<"&">>)
             rest == SubSeq(body, Len(pair) + 2, Len(body))
             name == Split0(pair, <<"=">>)
         IN  (IF name = key THEN <<SubSeq(pair, Len(name) + 2, Len(pair))>> ELSE <<>>)
             \o FormValues(rest, key)

\* form_dict.get("csrfmiddlewaretoken") after `await request.form()`:
\* the dict built from the form's items keeps the last value of a key
FormCsrf(body) ==
    LET vs == FormValues(body, <<"csrfmiddlewaretoken">>)
    IN  IF vs = <<>> THEN <<>> ELSE vs[Len(vs)]

\* parse_qs(body_str)["csrfmiddlewaretoken"][0]: blank values are dropped
ParseQsCsrf(body) ==
    LET vs == SelectSeq(FormValues(body, <<"csrfmiddlewaretoken">>), LAMBDA v : v # <<>>)
    IN  IF vs = <<>> THEN <<>> ELSE vs[1]

\* the token a request starts with: header first, then cookie (main.py:1392-1397)
InboundCsrf(rq) ==
    IF rq.hdr_csrf # <<>> THEN rq.hdr_csrf
    ELSE IF rq.hdr_csrf2 # <<>> THEN rq.hdr_csrf2
    ELSE IF rq.ck_csrf # <<>> THEN rq.ck_csrf
    ELSE rq.ck_edxcsrf

\* the CSRF value (cookie and header alike) of each upstream attempt the
\* content-type dispatch can make, in order (main.py:1434-1596)
CsrfAttempts(rq) ==
    LET c0 == InboundCsrf(rq)
        Or(v, d) == IF v # <<>> THEN v ELSE d
    IN  IF rq.ctype = "multipart/form-data"
        THEN LET m == MultipartCsrf(rq.body)
                 c1 == IF m # <<>> THEN m[1] ELSE c0
             IN  <<c1, c1>>
        ELSE IF rq.ctype = "application/x-www-form-urlencoded"
        THEN LET c1 == Or(FormCsrf(rq.body), c0)
             IN  IF rq.form_fails THEN <<Or(ParseQsCsrf(rq.body), c0)>>
                 ELSE <<c1, Or(ParseQsCsrf(rq.body), c1)>>
        ELSE IF StartsWith(rq.body, <<"{">>) THEN <<c0, c0, c0>>
        ELSE <<c0, c0>>

\* len(text): the tokens "x*100", "x*500" and "x*1000" stand for that many
\* characters of filler; every other token counts 1, a lower bound that no
\* body of the model brings near a threshold
CharLen(s) ==
    Len(s) + 99 * Cardinality({i \in 1..Len(s) : s[i] = "x*100"})
           + 499 * Cardinality({i \in 1..Len(s) : s[i] = "x*500"})
           + 999 * Cardinality({i \in 1..Len(s) : s[i] = "x*1000"})

PathBodyLimit == 500

\* a test that takes no body for a path
IsPathBodyNever(u) == FALSE

\* the test of main.py:1709-1716 on response_text = response.text.strip()
IsPathBody(u) ==
    LET response_text == Strip(u.body)
    IN  /\ u.status = 200
        /\ response_text # <<>>
        /\ StartsWith(response_text, <<"/">>)
        /\ CharLen(response_text) < PathBodyLimit
        /\ ~StartsWith(response_text, <<"<">>)
        /\ ~Contains(response_text, <<"\n">>)
        /\ ~StartsWith(response_text, <<"/", "openedx-proxy", "/">>)
        /\ ~StartsWithHttp(response_text)

\* main.py:1699-1863: classification of a received response
ClassifyPost(path, u, link_id) ==
    LET cookies == ForwardCookies(u, link_id)
    IN  IF u.status \in RedirectStatuses /\ u.location # <<>>
        THEN HandleRedirect(path, u, link_id)
        ELSE IF IsPathBody(u)
        THEN Response(200, "text", <<>>,
                      WithLinkId(FASTAPI_PUBLIC_BASE_URL \o <<"/", "openedx-proxy">>
                                 \o Strip(u.body), link_id), cookies)
        ELSE IF u.ctype = "application/json"
        THEN Response(u.status, IF StartsWith(u.body, <<"{">>) THEN "json" ELSE "text",
                      <<>>, u.body, cookies)
        ELSE IF u.ctype = "text/html"
        THEN Response(u.status, "html", <<>>, RewriteHtml(u.body, link_id), cookies)
        ELSE Response(u.status, "other", <<>>, u.body, cookies)

\* a handler whose body token reaches the cookies while the headers keep the
\* token the request arrived with
ProxyPostInboundHeader(ls, ts, rq, u, link_id, csrf) ==
    LET l == LinkById(ls, link_id)
        t == IF l = 0 THEN 0 ELSE TokenByEmail(ts, ls[l].email)
        url == OPENEDX_API_BASE \o <<"/">> \o rq.path
        made == IF u.fails < Len(csrf) THEN u.fails + 1 ELSE Len(csrf)
    IN  IF link_id = <<>>
        THEN Result(HttpError(400, <<"Invalid request - link_id not found">>), <<>>, link_id)
        ELSE IF l = 0 THEN Result(HttpError(404, <<"Invalid link">>), <<>>, link_id)
        ELSE IF t = 0 \/ ts[t].access_token = ""
        THEN Result(HttpError(400, <<"No valid session found">>), <<>>, link_id)
        ELSE LET o == [i \in 1..made |->
                        Outbound("POST", url, ts[t].access_token, csrf[i],
                                 InboundCsrf(rq))]
             IN  IF u.fails >= Len(csrf)
                 THEN Result(HttpError(500, <<"Error processing request: ", u.exc>>), o,
                             link_id)
                 ELSE Result(ClassifyPost(rq.path, u, link_id), o, link_id)

\* the handler once link_id is resolved and the CSRF value of each attempt
\* is known
ProxyPost(ls, ts, rq, u, link_id, csrf) ==
    LET l == LinkById(ls, link_id)
        t == IF l = 0 THEN 0 ELSE TokenByEmail(ts, ls[l].email)
        url == OPENEDX_API_BASE \o <<"/">> \o rq.path
        made == IF u.fails < Len(csrf) THEN u.fails + 1 ELSE Len(csrf)
    IN  IF link_id = <<>>
        THEN Result(HttpError(400, <<"Invalid request - link_id not found">>), <<>>, link_id)
        ELSE IF l = 0 THEN Result(HttpError(404, <<"Invalid link">>), <<>>, link_id)
        ELSE IF t = 0 \/ ts[t].access_token = ""
        THEN Result(HttpError(400, <<"No valid session found">>), <<>>, link_id)
        ELSE LET o == [i \in 1..made |->
                        Outbound("POST", url, ts[t].access_token, csrf[i], csrf[i])]
             IN  IF u.fails >= Len(csrf)
                 THEN Result(HttpError(500, <<"Error processing request: ", u.exc>>), o,
                             link_id)
                 ELSE Result(ClassifyPost(rq.path, u, link_id), o, link_id)

OpenedxProxyPost(ls, ts, rq, u) ==
    ProxyPost(ls, ts, rq, u, ResolveLinkId(ls, ts, rq), CsrfAttempts(rq))

(***************************************************************************)
(* Credential flows.  The upstream accepts one password for the request's  *)
(* e-mail (u.accepts, "" when it accepts none); each of its login          *)
(* endpoints judges a password alike.  u.fails > 0: its calls raise a      *)
(* requests.RequestException.                                              *)
(***************************************************************************)
Link(id, e) == [link_id |-> id, email |-> e]
Token(e, c, p) == [email |-> e, access_token |-> c, password |-> p]

\* what a handler leaves behind: response, upstream calls, both tables
Effect(r, o, ls, ts) == [resp |-> r, out |-> o, links |-> ls, tokens |-> ts]

\* str(uuid.uuid4()): a link_id no LinkRecord holds yet
LinkNames == <<"L1", "L2", "L3", "L4">>
NewLinkId(ls) == <<LinkNames[Len(ls) + 1]>>

OPENEDX_DASHBOARD_URL == OPENEDX_API_BASE \o <<"/", "dashboard">>

\* one upstream call of a credential flow
LoginCall(method, route, e, pw) ==
    [Outbound(method, OPENEDX_API_BASE \o <<"/", route>>, "", <<>>, <<>>)
        EXCEPT !.email = e, !.password = pw]

\* the three login requests made with one password (main.py:1976-2043,
\* 2410-2449, 2531-2566, 2691-2726): login_session, login_ajax, login_ajax
\* with the e-mail only; the flow stops at the first that succeeds
LoginCalls(e, pw, u) ==
    IF u.accepts = pw THEN <<LoginCall("POST", "user_api/v1/account/login_session/", e, pw)>>
    ELSE <<LoginCall("POST", "user_api/v1/account/login_session/", e, pw),
           LoginCall("POST", "login_ajax", e, pw),
           LoginCall("POST", "login_ajax", e, pw)>>

\* common_passwords (main.py:2092) and the tail of password_strategies
\* (main.py:2510-2519)
CommonPasswords ==
    <<"password123", "Password123", "123456", "admin123", "test123", "user123", "demo123">>

\* index of the first password of ps the upstream accepts, 0 if none
FirstAccepted(ps, u) ==
    LET hits == {i \in 1..Len(ps) : ps[i] = u.accepts}
    IN  IF hits = {} THEN 0 ELSE CHOOSE i \in hits : \A j \in hits : i <= j

\* the login_ajax calls of the common-password loop up to and including the
\* n-th password
RECURSIVE CommonCalls(_, _)
CommonCalls(e, n) ==
    IF n = 0 THEN <<>>
    ELSE CommonCalls(e, n - 1) \o <<LoginCall("POST", "login_ajax", e, CommonPasswords[n])>>

\* a store that only ever adds a row and leaves an existing one as it is
PutTokenOnce(ts, e, c, pw) ==
    IF TokenByEmail(ts, e) = 0 THEN Append(ts, Token(e, c, pw)) ELSE ts

\* db row of the e-mail updated or added
PutToken(ts, e, c, pw) ==
    LET t == TokenByEmail(ts, e)
    IN  IF t = 0 THEN Append(ts, Token(e, c, pw))
        ELSE [ts EXCEPT ![t] = Token(e, c, pw)]

\* a token usable by the proxies
ValidSession(c) == c # "" /\ c # "session_based"

\* a validator that leaves the address as it was written
ValidateEmailRaw(v) == v

\* UserData.validate_email (models.py:8-12): v.lower().strip(), on the
\* spellings the requests use
ValidateEmail(v) ==
    CASE v \in {"A@X.com", " a@x.com "} -> "a@x.com"
      [] v = "B@x.com" -> "b@x.com"
      [] OTHER -> v

\* a generate-link that gives an e-mail which has a link a new link_id
GenerateLinkRenew(ls, ts, rq) ==
    LET email == ValidateEmail(rq.email)
        l == LinkByEmail(ls, email)
        id == NewLinkId(ls)
        ls2 == IF l # 0 THEN [ls EXCEPT ![l] = Link(id, email)]
               ELSE Append(ls, Link(id, email))
    IN  Effect(Response(200, "json", <<>>,
                        <<"link">> \o FASTAPI_PUBLIC_BASE_URL \o <<"/", "access", "/">> \o id,
                        NoCookies), <<>>, ls2, ts)

\* existing_link of generate_link (main.py:262): the link_id of the first
\* LinkRecord of the e-mail, <<>> when there is none
ExistingLink(ls, rq) ==
    LET l == LinkByEmail(ls, ValidateEmail(rq.email))
    IN  IF l = 0 THEN <<>> ELSE ls[l].link_id

\* generate_link after its lookup gave existing_link (main.py:263-333)
GenerateLinkFound(ls, ts, rq, existing_link) ==
    LET email == ValidateEmail(rq.email)
        id == IF existing_link # <<>> THEN existing_link ELSE NewLinkId(ls)
        link_url == FASTAPI_PUBLIC_BASE_URL \o <<"/", "access", "/">> \o id
        ls2 == IF existing_link # <<>> THEN ls ELSE Append(ls, Link(id, email))
    IN  IF rq.iframe
        THEN Effect(Response(200, "html", <<>>,
                             <<"<", "iframe", " ", "src=", Q>> \o link_url \o <<Q, ">">>,
                             NoCookies), <<>>, ls2, ts)
        ELSE Effect(Response(200, "json", <<>>, <<"link">> \o link_url, NoCookies),
                    <<>>, ls2, ts)

\* POST /generate-link (main.py:260-333)
GenerateLink(ls, ts, rq) == GenerateLinkFound(ls, ts, rq, ExistingLink(ls, rq))

\* the cookies access_link sets besides edx_link_id
SessionCookies(c, id) ==
    [NoCookies EXCEPT !.lms_sessionid = IF ValidSession(c) THEN c ELSE "",
                      !.sessionid = IF ValidSession(c) THEN c ELSE "",
                      !.edx_link_id = id]

\* GET /access/{link_id} (main.py:1911-2342)
AccessLink(ls, ts, rq, u) ==
    LET link_id == rq.arg
        l == LinkById(ls, link_id)
        email == ls[l].email
        reg == <<LoginCall("GET", "register", "", ""),
                 LoginCall("POST", "user_api/v1/account/registration/", email,
                           DEFAULT_USER_PASSWORD),
                 LoginCall("GET", "login", "", "")>>
        n == FirstAccepted(CommonPasswords, u)
        first == LoginCalls(email, DEFAULT_USER_PASSWORD, u)
        calls == IF u.accepts = DEFAULT_USER_PASSWORD THEN reg \o first
                 ELSE reg \o first
                      \o CommonCalls(email, IF n = 0 THEN Len(CommonPasswords) ELSE n)
        password == IF u.accepts = DEFAULT_USER_PASSWORD THEN DEFAULT_USER_PASSWORD
                    ELSE CommonPasswords[n]
        session_cookie == IF u.set_lms # "" THEN u.set_lms ELSE u.set_sid
        stored == IF session_cookie # "" THEN session_cookie ELSE "session_based"
        ts2 == PutToken(ts, email, stored, password)
        user_json(msg) == <<"email", email, "session_cookie", stored, "redirect_url">>
                          \o FASTAPI_PUBLIC_BASE_URL \o <<"/", "access", "/">> \o link_id
                          \o <<"?", "format=redirect", "message", msg>>
        dashboard_url == FASTAPI_PUBLIC_BASE_URL \o <<"/", "dashboard-proxy", "/">> \o link_id
    IN  IF l = 0 THEN Effect(HttpError(404, <<"Invalid link">>), <<>>, ls, ts)
        ELSE IF u.fails > 0
        THEN Effect(HttpError(500, <<"Open edX request failed: ", u.exc>>),
                    <<reg[1]>>, ls, ts)
        ELSE IF u.accepts # DEFAULT_USER_PASSWORD /\ n = 0
        THEN Effect(HttpError(400, <<"Login failed", "Could not login user '", email,
                                     "' with any password strategy.">>),
                    calls, ls, ts)
        ELSE IF rq.format = "json" /\ ~rq.iframe
        THEN Effect(Response(200, "json", <<>>,
                             user_json("User registered and logged in successfully"),
                             NoCookies), calls, ls, ts2)
        ELSE IF rq.iframe
        THEN Effect(Response(200, "html", <<>>,
                             <<"<", "iframe", " ", "src=", Q>> \o dashboard_url \o <<Q, ">">>,
                             SessionCookies(stored, link_id)), calls, ls, ts2)
        ELSE IF ValidSession(stored)
        THEN Effect(Response(307, "redirect", dashboard_url, <<>>,
                             SessionCookies(stored, link_id)), calls, ls, ts2)
        ELSE Effect(Response(200, "json", <<>>,
                             user_json("No valid session found, please use auto-login endpoint"),
                             NoCookies), calls, ls, ts2)

\* the redirect of sso, auto-login and custom-login to the upstream dashboard
\* with the session cookie and the CSRF cookie
DashboardRedirect(sessionid, u) ==
    Response(307, "redirect", OPENEDX_DASHBOARD_URL, <<>>,
             [NoCookies EXCEPT !.sessionid = sessionid,
                               !.csrftoken = IF u.set_csrf # <<>> THEN u.set_csrf
                                             ELSE u.set_edxcsrf])

\* POST /sso (main.py:2346-2503); reg_status 4001 stands for the 400 answer
\* that says the username already exists
SsoLogin(ls, ts, rq, u) ==
    LET email == ValidateEmail(rq.email)
        t == TokenByEmail(ts, email)
        password == IF t # 0 /\ ts[t].password # "" THEN ts[t].password
                    ELSE DEFAULT_USER_PASSWORD
        reg == <<LoginCall("GET", "register", "", ""),
                 LoginCall("POST", "user_api/v1/account/registration/", email, password)>>
        calls == reg \o <<LoginCall("GET", "login", "", "")>> \o LoginCalls(email, password, u)
        ts2 == IF t = 0 THEN Append(ts, Token(email, "", password))
               ELSE IF ts[t].password = "" THEN [ts EXCEPT ![t].password = password]
               ELSE ts
    IN  IF u.fails > 0
        THEN Effect(HttpError(502, <<"Open edX registration unreachable">>), <<reg[1]>>, ls, ts)
        ELSE IF u.reg_status \notin {200, 201, 409, 4001}
        THEN Effect(HttpError(502, <<"Open edX registration error">>), reg, ls, ts)
        ELSE IF u.accepts # password
        THEN Effect(HttpError(401, <<"Open edX login failed">>), calls, ls, ts)
        ELSE IF u.set_sid = ""
        THEN Effect(HttpError(502, <<"Open edX session cookie not found">>), calls, ls, ts2)
        ELSE Effect(DashboardRedirect(u.set_sid, u), calls, ls, ts2)

\* password_strategies (main.py:2510-2519)
PasswordStrategies == <<DEFAULT_USER_PASSWORD>> \o CommonPasswords

\* the calls of the auto-login loop for the first n strategies
RECURSIVE StrategyCalls(_, _, _)
StrategyCalls(e, n, u) ==
    IF n = 0 THEN <<>>
    ELSE StrategyCalls(e, n - 1, u)
         \o <<LoginCall("GET", "login", "", "")>>
         \o (IF u.fails > 0 THEN <<>> ELSE LoginCalls(e, PasswordStrategies[n], u))

\* GET /auto-login/{email} (main.py:2505-2662)
AutoLoginExistingUser(ls, ts, rq, u) ==
    LET email == rq.email
        n == FirstAccepted(PasswordStrategies, u)
    IN  IF u.fails > 0 \/ n = 0 \/ u.set_sid = ""
        THEN Effect(HttpError(400, <<"Auto-login failed",
                                     "Could not automatically login user '", email,
                                     "' with any password strategy.", "tried_passwords">>
                                   \o PasswordStrategies
                                   \o <<"manage_user_url">> \o FASTAPI_PUBLIC_BASE_URL
                                   \o <<"/", "manage-existing-user">>),
                    StrategyCalls(email, Len(PasswordStrategies), u), ls, ts)
        ELSE Effect(DashboardRedirect(u.set_sid, u), StrategyCalls(email, n, u), ls,
                    PutToken(ts, email, u.set_sid, PasswordStrategies[n]))

\* POST /custom-login (main.py:2665-2809)
CustomPasswordLogin(ls, ts, rq, u) ==
    LET email == rq.email
        password == rq.password
        page == <<LoginCall("GET", "login", "", "")>>
        calls == page \o LoginCalls(email, password, u)
    IN  IF email = "" \/ password = ""
        THEN Effect(HttpError(400, <<"Email and password are required">>), <<>>, ls, ts)
        ELSE IF u.fails > 0
        THEN Effect(HttpError(500, <<"Custom login request failed: ", u.exc>>), page, ls, ts)
        ELSE IF u.accepts # password
        THEN Effect(HttpError(400, <<"Custom login failed", "Could not login user '", email,
                                     "' with the provided password.">>), calls, ls, ts)
        ELSE IF u.set_sid = ""
        THEN Effect(HttpError(500, <<"Session cookie not found after successful login">>),
                    calls, ls, ts)
        ELSE Effect(DashboardRedirect(u.set_sid, u), calls, ls,
                    PutToken(ts, email, u.set_sid, password))

\* the e-mail variations of main.py:2834-2840, for the e-mails of the model
EmailVariations(e) ==
    IF e = "a@x.com"
    THEN <<"a+fastapi@x.com", "a_fastapi@x.com", "a_new@x.com", "a2@x.com", "a_auto@x.com">>
    ELSE <<"b+fastapi@x.com", "b_fastapi@x.com", "b_new@x.com", "b2@x.com", "b_auto@x.com">>

\* the loop's lookups of manage_existing_user (main.py:2842-2845): the index
\* of the first variation no SessionRecord holds, 0 when all are in use
FreeVariation(ts, rq) ==
    LET vs == EmailVariations(ValidateEmail(rq.email))
        free == {i \in 1..Len(vs) : TokenByEmail(ts, vs[i]) = 0}
    IN  IF free = {} THEN 0 ELSE CHOOSE x \in free : \A y \in free : x <= y

\* manage_existing_user after its lookups gave variation i (main.py:2846-2868)
ManageExistingUserFound(ls, ts, rq, i) ==
    LET original_email == ValidateEmail(rq.email)
        vs == EmailVariations(original_email)
        link_id == NewLinkId(ls)
    IN  IF i = 0
        THEN Effect(Response(200, "json", <<>>,
                             <<"error", "Could not create alternative email", original_email>>,
                             NoCookies), <<>>, ls, ts)
        ELSE Effect(Response(200, "json", <<>>,
                             <<"new_email", vs[i], "original_email", original_email, "link">>
                             \o FASTAPI_PUBLIC_BASE_URL \o <<"/", "access", "/">> \o link_id,
                             NoCookies), <<>>, Append(ls, Link(link_id, vs[i])), ts)

\* POST /manage-existing-user (main.py:2826-2868)
ManageExistingUser(ls, ts, rq) ==
    ManageExistingUserFound(ls, ts, rq, FreeVariation(ts, rq))

(***************************************************************************)
(* GET /dashboard-proxy/{link_id}  (dashboard_proxy, main.py:336-881).     *)
(***************************************************************************)
StaticBase == FASTAPI_PUBLIC_BASE_URL \o <<"/", "openedx-static">>

\* re.sub(lead + '(' + prefix + '[^"]*)' + tailIn, lead + base + r'\1' + tailOut, s);
\* `plus`: the class must match at least one character ([^"]+?)
RECURSIVE ReSubStatic(_, _, _, _, _, _)
ReSubStatic(s, lead, prefix, plus, tailIn, tailOut) ==
    LET head == lead \o prefix
        Rest(i) == SubSeq(s, i + Len(head), Len(s))
        Run(i) == RunLen(Rest(i), {Q})
        After(i) == SubSeq(Rest(i), Run(i) + 1, Len(Rest(i)))
        hits == {i \in 1..(Len(s) - Len(head) + 1) :
                    /\ SubSeq(s, i, i + Len(head) - 1) = head
                    /\ (~plus \/ Run(i) > 0)
                    /\ StartsWith(After(i), tailIn)}
    IN  IF hits = {} THEN s
        ELSE LET i == Least(hits)
             IN  SubSeq(s, 1, i - 1)
                 \o lead \o StaticBase \o prefix \o SubSeq(Rest(i), 1, Run(i)) \o tailOut
                 \o ReSubStatic(SubSeq(After(i), Len(tailIn) + 1, Len(After(i))),
                                lead, prefix, plus, tailIn, tailOut)

\* main.py:475-478: the four str.replace calls for /static/
ReplaceStatic(c) ==
    LET st == <<"/", "static", "/">>
        to(lead) == lead \o StaticBase \o st
        c1 == ReplaceAll(c, <<"src=", Q>> \o st, to(<<"src=", Q>>))
        c2 == ReplaceAll(c1, <<"href=", Q>> \o st, to(<<"href=", Q>>))
        c3 == ReplaceAll(c2, <<"url(", Q>> \o st, to(<<"url(", Q>>))
    IN  ReplaceAll(c3, <<"url(">> \o st, to(<<"url(">>))

\* main.py:481-499: asset-v1 (the replacement leaves the closing quote out),
\* learner-dashboard and authn, then the four mfe_paths (closing quote left
\* out again)
RewriteMfeAssets(c) ==
    LET src == <<"src=", Q>>
        href == <<"href=", Q>>
        url == <<"url(", Q>>
        a1 == ReSubStatic(c, src, <<"/", "asset-v1:">>, FALSE, <<Q>>, <<>>)
        a2 == ReSubStatic(a1, href, <<"/", "asset-v1:">>, FALSE, <<Q>>, <<>>)
        Mfe(x, name) ==
            ReSubStatic(ReSubStatic(ReSubStatic(x, src, <<"/", name, "/">>, TRUE, <<Q>>, <<Q>>),
                                    href, <<"/", name, "/">>, TRUE, <<Q>>, <<Q>>),
                        url, <<"/", name, "/">>, TRUE, <<Q, ")">>, <<Q, ")">>)
        Path(x, name) ==
            ReSubStatic(ReSubStatic(x, src, <<"/", name, "/">>, FALSE, <<Q>>, <<>>),
                        href, <<"/", name, "/">>, FALSE, <<Q>>, <<>>)
    IN  Path(Path(Path(Path(Mfe(Mfe(a2, "learner-dashboard"), "authn"),
                            "learning"), "course-authoring"), "account"), "profile")

\* add_link_id_to_href_dash (main.py:502-513)
AddLinkIdToHrefDash(url_path, whole, link_id) ==
    IF Contains(url_path, <<"?">>) \/ StartsWithHttp(url_path)
       \/ Contains(whole, FASTAPI_PUBLIC_BASE_URL)
    THEN whole
    ELSE IF StartsWith(url_path, <<"asset-v1:">>) \/ StartsWith(url_path, <<"static", "/">>)
    THEN <<"href=", Q>> \o StaticBase \o url_path \o <<Q>>
    ELSE IF StartsWith(url_path, <<"/", "learner-dashboard", "/">>)
            \/ StartsWith(url_path, <<"/", "authn", "/">>)
    THEN whole
    ELSE <<"href=", Q>> \o FASTAPI_PUBLIC_BASE_URL \o <<"/", "openedx-proxy">> \o url_path
         \o <<"?", "link_id=">> \o link_id \o <<Q>>

\* replace_src_dash (main.py:528-534)
ReplaceSrcDash(url_path, whole, link_id) ==
    IF StartsWithHttp(url_path) \/ Contains(whole, FASTAPI_PUBLIC_BASE_URL) THEN whole
    ELSE IF StartsWith(url_path, <<"/", "learner-dashboard", "/">>)
            \/ StartsWith(url_path, <<"/", "authn", "/">>)
    THEN whole
    ELSE <<"src=", Q>> \o StaticBase \o url_path \o <<Q>>

DashCallback(attr, url_path, whole, link_id) ==
    CASE attr = "href=" -> AddLinkIdToHrefDash(url_path, whole, link_id)
      [] attr = "action=" -> AddLinkIdToAction(url_path, whole, link_id)
      [] OTHER -> ReplaceSrcDash(url_path, whole, link_id)

\* re.sub(attr + r'"(/[^"]*)"', callback, s) with the dashboard's callbacks
RECURSIVE ReSubAttrDash(_, _, _)
ReSubAttrDash(s, attr, link_id) ==
    LET hits == {i \in 1..(Len(s) - 2) :
                    SubSeq(s, i, i + 2) = <<attr, Q, "/">> /\ Find(s, <<Q>>, i + 2) # 0}
    IN  IF hits = {} THEN s
        ELSE LET i == Least(hits)
                 j == Find(s, <<Q>>, i + 2)
             IN  SubSeq(s, 1, i - 1)
                 \o DashCallback(attr, SubSeq(s, i + 2, j - 1), SubSeq(s, i, j), link_id)
                 \o ReSubAttrDash(SubSeq(s, j + 1, Len(s)), attr, link_id)

\* main.py:471-546
RewriteDashboard(content, link_id) ==
    LET c == ReSubAttrDash(ReSubAttrDash(ReSubAttrDash(RewriteMfeAssets(ReplaceStatic(content)),
                                                       "href=", link_id),
                                         "action=", link_id),
                           "src=", link_id)
        base == <<"<", "base", " ", "href=", Q>> \o OPENEDX_API_BASE \o <<"/", Q, ">">>
    IN  IF Contains(c, <<"<", "head", ">">>) THEN AddBaseTag(c)
        ELSE <<"<", "head", ">">> \o base \o <<"</", "head", ">">> \o c

\* the page of main.py:549-621 around the rewritten document
DashboardHtml(content, email, access_token) ==
    <<"<", "div", " ", "class=", Q, "dashboard-content", Q, ">">> \o content
    \o <<"</", "div", ">", "<", "script", ">", "Dashboard loaded successfully for user: ",
         email, "lms_sessionid=", access_token, "sessionid=", access_token,
         "</", "script", ">">>

\* f"{dashboard_response.status_code}"
StatusText(st) ==
    CASE st = 403 -> "403" [] st = 404 -> "404" [] st = 500 -> "500" [] OTHER -> "status"

\* main.py:660-662: is_mfe_redirect or a Location on localhost
IsMfeRedirect(location, final_url) ==
    \/ \E pat \in {<<"/", "learner-dashboard">>, <<"/", "dashboard">>, <<":1996">>,
                    <<":1997">>, <<":2000">>} : Contains(location \o final_url, pat)
    \/ StartsWith(location, <<"http:", "/", "/", "localhost">>)
    \/ StartsWith(location, <<"http:", "/", "/", "127.0.0.1">>)

\* the iframe page of main.py:426-457 and 671-690
MfeIframeHtml(url) == <<"<", "iframe", " ", "src=", Q>> \o url \o <<Q, ">">>

DashboardProxy(ls, ts, rq, u) ==
    LET link_id == rq.arg
        l == LinkById(ls, link_id)
        email == ls[l].email
        t == IF l = 0 THEN 0 ELSE TokenByEmail(ts, email)
        stored == ts[t].access_token
        dashboard_url == OPENEDX_API_BASE \o <<"/", "dashboard">>
        access == Response(307, "redirect",
                           FASTAPI_PUBLIC_BASE_URL \o <<"/", "access", "/">> \o link_id
                           \o <<"?", "format=redirect">>, <<>>, NoCookies)
        first == Outbound("GET", dashboard_url, stored, <<>>, <<>>)
        \* main.py:388-394: only the lms_sessionid cookie of the response is kept
        rot1 == IF u.set_lms # "" /\ u.set_lms # stored THEN u.set_lms ELSE stored
        content_length == CharLen(Strip(u.body))
        final_url == IF u.final_url = <<>> THEN dashboard_url ELSE u.final_url
        second == [Outbound("GET", final_url, IF u.set_lms # "" THEN u.set_lms ELSE stored,
                            <<>>, <<>>)
                      EXCEPT !.sessionid = IF u.set_sid # "" THEN u.set_sid ELSE stored]
        toMfe == /\ content_length < 1000
                 /\ final_url # dashboard_url
                 /\ \/ Contains(final_url, <<"/", "learner-dashboard">>)
                    \/ Contains(final_url, <<":1996">>)
        swapped == toMfe /\ u.mfe_status = 200 /\ CharLen(u.mfe_body) > 1000
        rot2 == IF swapped /\ u.mfe_set_lms # "" /\ u.mfe_set_lms # rot1
                THEN u.mfe_set_lms ELSE rot1
        text == IF swapped THEN u.mfe_body ELSE u.body
        Stored(c) == [ts EXCEPT ![t].access_token = c]
        calls == IF toMfe THEN <<first, second>> ELSE <<first>>
    IN  IF l = 0 THEN Effect(HttpError(404, <<"Invalid link">>), <<>>, ls, ts)
        ELSE IF t = 0 \/ ~ValidSession(stored) THEN Effect(access, <<>>, ls, ts)
        ELSE IF u.fails > 0
        THEN Effect(Response(200, "errorpage", <<>>,
                             <<"Configuration Error", u.exc, "Dashboard URL: ">>
                             \o OPENEDX_DASHBOARD_URL \o <<"Open edX Base: ">>
                             \o OPENEDX_API_BASE \o <<"User: ", email>>, NoCookies),
                    <<first>>, ls, ts)
        ELSE IF u.status = 200
        THEN IF toMfe /\ u.mfe_status # 0 /\ ~swapped
             THEN Effect(Response(200, "html", <<>>, MfeIframeHtml(final_url)
                                  \o <<"lms_sessionid=", rot1, "sessionid=", rot1>>,
                                  [NoCookies EXCEPT !.lms_sessionid = rot1,
                                                    !.sessionid = rot1]),
                         calls, ls, Stored(rot1))
             ELSE IF text = <<>> \/ content_length < 100
             THEN Effect(access, calls, ls, Stored(rot2))
             ELSE Effect(Response(200, "html", <<>>,
                                  DashboardHtml(RewriteDashboard(text, link_id), email, rot2),
                                  [NoCookies EXCEPT
                                      !.edx_link_id = link_id,
                                      !.lms_sessionid = IF swapped THEN u.mfe_set_lms
                                                        ELSE u.set_lms,
                                      !.csrftoken = IF swapped THEN <<>> ELSE u.set_csrf]),
                         calls, ls, Stored(rot2))
        ELSE IF u.status \in RedirectStatuses
        THEN LET again == IsMfeRedirect(u.location, final_url) /\ final_url # dashboard_url
             IN  IF again /\ u.mfe_status = 200
                 THEN Effect(Response(200, "html", <<>>, MfeIframeHtml(final_url), NoCookies),
                             <<first, second>>, ls, Stored(rot1))
                 ELSE Effect(access, IF again THEN <<first, second>> ELSE <<first>>,
                             ls, Stored(rot1))
        ELSE Effect(Response(200, "errorpage", <<>>,
                             <<"Dashboard Access Error", "Status Code: ", StatusText(u.status),
                               "Dashboard URL: ">> \o dashboard_url \o <<"User: ", email>>,
                             NoCookies),
                    <<first>>, ls, Stored(rot1))

(***************************************************************************)
(* Requests, upstream behaviours and stored data the model draws from.     *)
(***************************************************************************)
L1 == <<"L1">>
L2 == <<"L2">>

DefaultReq ==
    [endpoint |-> "openedx-proxy", method |-> "GET", path |-> <<"dashboard">>, referer |-> <<>>, ck_link |-> <<>>,
     q_link |-> <<>>, ck_lms |-> "", ck_sid |-> "", hdr_csrf |-> <<>>, hdr_csrf2 |-> <<>>,
     ck_csrf |-> <<>>, ck_edxcsrf |-> <<>>, ctype |-> "", body |-> <<>>,
     form_fails |-> FALSE,
     arg |-> <<>>, email |-> "", password |-> "", format |-> "redirect",
     iframe |-> FALSE]

DefaultUp ==
    [fails |-> 0, exc |-> "timeout", status |-> 200, location |-> <<>>,
     ctype |-> "text/html", body |-> <<>>, set_lms |-> "", set_sid |-> "",
     set_csrf |-> <<>>, set_edxcsrf |-> <<>>,
     accepts |-> "", reg_status |-> 200, final_url |-> <<>>,
     mfe_status |-> 200, mfe_body |-> <<>>, mfe_set_lms |-> ""]

NoResponse == Response(0, "none", <<>>, <<>>, NoCookies)

TwoLinks == <<Link(L1, "a@x.com"), Link(L2, "b@x.com")>>

\* stored data the flows can leave behind: both users logged in; one user
\* without a session; an empty cookie (sso) and the sentinel (access); the
\* same cookie value under two e-mails; a session whose e-mail has no link
\* (auto-login and custom-login take the e-mail from the request)
Databases ==
    { [links |-> TwoLinks,
       tokens |-> <<Token("a@x.com", "S1", "pw"), Token("b@x.com", "S2", "pw")>>],
      [links |-> TwoLinks, tokens |-> <<Token("a@x.com", "S1", "pw")>>],
      [links |-> TwoLinks,
       tokens |-> <<Token("a@x.com", "", "pw"), Token("b@x.com", "session_based", "pw")>>],
      [links |-> TwoLinks,
       tokens |-> <<Token("b@x.com", "S1", "pw"), Token("a@x.com", "S1", "pw")>>],
      [links |-> <<Link(L2, "b@x.com")>>,
       tokens |-> <<Token("a@x.com", "S1", "pw"), Token("b@x.com", "S2", "pw")>>] }

ProxyUrl(route) == FASTAPI_PUBLIC_BASE_URL \o <<"/", route, "/">>

Referers ==
    { <<>>,
      <<"http:", "/", "/", "other.example", "/", "page">>,
      ProxyUrl("dashboard-proxy") \o L1,
      ProxyUrl("dashboard-proxy") \o L2 \o <<"?", "x=1">>,
      ProxyUrl("dashboard-proxy"),
      ProxyUrl("access") \o L1 \o <<"?", "format=redirect">>,
      ProxyUrl("access") \o L2 \o <<"/", "x", "#", "top">>,
      ProxyUrl("openedx-proxy") \o <<"dashboard", "?", "link_id=">> \o L1,
      ProxyUrl("openedx-proxy") \o <<"courses", "?", "a=1", "&", "link_id=">> \o L2
          \o <<"&", "b=2">>,
      ProxyUrl("openedx-proxy") \o <<"courses", "?", "link_id=">> \o L1 \o <<"#", "top">>,
      ProxyUrl("openedx-proxy") \o <<"dashboard">>,
      ProxyUrl("openedx-proxy") \o <<"help", "/", "access", "/", "faq", "?", "link_id=">> \o L1 }

LinkIdValues == {<<>>, L1, L2, <<"L9">>}
SessionValues == {"", "S1", "S2"}

(***************************************************************************)
(* One request against given stored data: the inputs are drawn in the      *)
(* initial state and the handler is applied to them.                       *)
(***************************************************************************)
Drawn(db, rq, u) ==
    /\ links = db.links
    /\ tokens = db.tokens
    /\ req = rq
    /\ up = u
    /\ phase = "ready"
    /\ resp = NoResponse
    /\ out = <<>>
    /\ resolved = <<>>
    /\ inflight = <<>>

\* the request at hand is answered with result r; neither table is written
Answered(r) ==
    /\ phase = "ready"
    /\ resp' = AddIframeHeaders(r.resp)
    /\ out' = r.out
    /\ resolved' = r.link_id
    /\ phase' = "done"
    /\ UNCHANGED <<links, tokens, req, up, inflight>>

HandleGet ==
    /\ req.endpoint = "openedx-proxy"
    /\ req.method = "GET"
    /\ Answered(OpenedxProxy(links, tokens, req, up))

HandlePost ==
    /\ req.endpoint = "openedx-proxy"
    /\ req.method = "POST"
    /\ Answered(OpenedxProxyPost(links, tokens, req, up))

NextRequest == HandleGet \/ HandlePost

\* identity resolution: every combination of referer, tracking cookie, query
\* parameter and session cookies, against each database
InitIdentity ==
    \E db \in Databases, m \in {"GET", "POST"}, r \in Referers,
       c \in LinkIdValues, q \in {<<>>, L1, L2}, s1 \in SessionValues, s2 \in SessionValues,
       p \in {<<"dashboard">>, <<"static", "/", "app.css">>} :
        Drawn(db, [DefaultReq EXCEPT !.method = m, !.referer = r, !.ck_link = c,
                                     !.q_link = q, !.ck_lms = s1, !.ck_sid = s2,
                                     !.path = p],
              DefaultUp)

SpecIdentity == InitIdentity /\ [][NextRequest]_vars

(***************************************************************************)
(* Claims about identity resolution.                                       *)
(***************************************************************************)
NavDone == phase = "done" /\ req.endpoint = "openedx-proxy"

\* GET /openedx-proxy/static/... and /openedx-proxy/asset-v1:... leave the
\* handler before identity resolution
StaticGet ==
    /\ req.method = "GET"
    /\ StartsWith(req.path, <<"static", "/">>) \/ StartsWith(req.path, <<"asset-v1:">>)

NoStrategyYields ==
    /\ RefererLinkId(req.referer) = <<>>
    /\ req.ck_link = <<>>
    /\ req.q_link = <<>>
    /\ SessionLinkId(links, tokens, req) = <<>>

\* C1 as stated: every navigation request (GET or POST) for which no identity
\* strategy yields a link_id is rejected with HTTP 400 and makes no upstream
\* fetch.
C1_UnresolvedAlways400 ==
    (NavDone /\ NoStrategyYields) => (resp.status = 400 /\ out = <<>>)

\* C1 amended: a navigation request for which no identity strategy yields a
\* link_id is rejected with HTTP 400, makes no upstream fetch and writes neither
\* table, unless it is a GET for a static/ or asset-v1: path; that one is
\* redirected (307) to the static-asset proxy, still without an upstream fetch
\* or a write.
C1_UnresolvedRejected ==
    [][(phase = "ready" /\ phase' = "done" /\ req.endpoint = "openedx-proxy"
        /\ NoStrategyYields)
       => /\ out' = <<>>
          /\ links' = links /\ tokens' = tokens
          /\ IF StaticGet
             THEN resp'.status = 307 /\ resp'.kind = "redirect"
                  /\ resp'.location = FASTAPI_PUBLIC_BASE_URL
                                      \o <<"/", "openedx-static", "/">> \o req.path
             ELSE resp'.status = 400 /\ resp'.kind = "error"]_vars

C1_Witness ==
    /\ NavDone /\ NoStrategyYields /\ ~StaticGet
    /\ req.ck_lms = "S2" /\ resp.status = 400 /\ out = <<>>

\* the referer has the shape {proxyBase}/{route}/{id} followed by nothing or by
\* "?", "#" or "/"
RefererSegment(route, id) ==
    /\ StartsWith(req.referer, ProxyUrl(route) \o id)
    /\ Len(req.referer) > Len(ProxyUrl(route) \o id)
       => req.referer[Len(ProxyUrl(route) \o id) + 1] \in {"?", "#", "/"}

\* the referer is a navigation-proxy URL whose path holds no /access/ or
\* /dashboard-proxy/ segment and whose first link_id= fragment carries id
RefererFragment(id) ==
    LET i == Find(req.referer, <<"link_id=">>, 1)
        after == SubSeq(req.referer, i + 1, Len(req.referer))
    IN  /\ StartsWith(req.referer, ProxyUrl("openedx-proxy"))
        /\ ~Contains(req.referer, <<"/", "access", "/">>)
        /\ ~Contains(req.referer, <<"/", "dashboard-proxy", "/">>)
        /\ i # 0
        /\ StartsWith(after, id)
        /\ Len(after) > Len(id) => after[Len(id) + 1] \in {"&", "#"}

\* C2: when the Referer yields a link_id A (a /dashboard-proxy/A or /access/A
\* segment, or the link_id=A fragment of a navigation-proxy referer) and the
\* edx_link_id cookie carries another value B, the request resolves to A: the
\* referer-derived value wins over the cookie in GET and in POST.
C2_RefererWinsOverCookie ==
    (NavDone /\ ~StaticGet /\ req.ck_link # <<>>) =>
        /\ (RefererLinkId(req.referer) # <<>> /\ req.ck_link # RefererLinkId(req.referer))
           => resolved = RefererLinkId(req.referer)
        /\ \A A \in {L1, L2} :
              ( /\ req.ck_link # A
                /\ \/ RefererSegment("dashboard-proxy", A)
                   \/ RefererSegment("access", A)
                   \/ RefererFragment(A) )
              => resolved = A

C2_Witness ==
    /\ NavDone /\ req.method = "POST"
    /\ RefererFragment(L2) /\ req.ck_link = L1 /\ resolved = L2

\* C15: the strategies are tried in order and the first that yields wins: when
\* the referer yields nothing, a present edx_link_id cookie is the resolved
\* link_id whatever the link_id query parameter says; when the cookie is absent
\* too, a present query parameter is the resolved link_id whatever the reverse
\* lookup of the session cookie would give; the result of that lookup is used
\* only when referer, tracking cookie and query parameter all yield nothing.
C15_StrictOrder ==
    (NavDone /\ ~StaticGet /\ RefererLinkId(req.referer) = <<>>) =>
        /\ req.ck_link # <<>> => resolved = req.ck_link
        /\ (req.ck_link = <<>> /\ req.q_link # <<>>) => resolved = req.q_link
        /\ (req.ck_link = <<>> /\ req.q_link = <<>>)
              => resolved = SessionLinkId(links, tokens, req)

\* the tracking cookie says L1, the query parameter L2 and the session cookie
\* belongs to the user of L2: the request resolved to L1
C15_Witness ==
    /\ NavDone /\ ~StaticGet /\ RefererLinkId(req.referer) = <<>>
    /\ req.ck_link = L1 /\ req.q_link = L2
    /\ SessionLinkId(links, tokens, req) = L2
    /\ resolved = L1 /\ out # <<>>

\* C9: with no referer-derived id, no tracking cookie and no query parameter,
\* a request carrying under lms_sessionid or sessionid the cookie S of a
\* SessionRecord (the first one holding S) whose e-mail has a LinkRecord L (the
\* first one of that e-mail) resolves to L.
C9_AnySessionCookieResolves ==
    (NavDone /\ ~StaticGet /\ RefererLinkId(req.referer) = <<>>
     /\ req.ck_link = <<>> /\ req.q_link = <<>>) =>
        \A S \in {req.ck_lms, req.ck_sid} \ {""} :
            \* (no other record is reachable through the other cookie)
            ( /\ TokenByCookie(tokens, S) # 0
              /\ \A S2 \in {req.ck_lms, req.ck_sid} \ {"", S} : TokenByCookie(tokens, S2) = 0
              /\ LinkByEmail(links, tokens[TokenByCookie(tokens, S)].email) # 0 )
            => resolved = links[LinkByEmail(links, tokens[TokenByCookie(tokens, S)].email)].link_id

\* the resolved link of a finished navigation request, 0 when there is none
ResolvedLink == LinkById(links, resolved)

SessionMissing ==
    /\ ResolvedLink # 0
    /\ LET t == TokenByEmail(tokens, links[ResolvedLink].email)
       IN  t = 0 \/ tokens[t].access_token = ""

\* C6 (navigation GET and POST): when the resolved link's e-mail has no
\* SessionRecord or its session cookie is empty, the response redirects the
\* browser to /access/{link_id} and no upstream fetch is made.
C6_NavFailsClosedByRedirect ==
    (NavDone /\ ~StaticGet /\ SessionMissing) =>
        /\ resp.kind = "redirect"
        /\ StartsWith(resp.location, <<"/", "access", "/">> \o resolved)
        /\ out = <<>>

(***************************************************************************)
(* Redirect answers of the upstream: one navigation request of a user with *)
(* a session, against every redirect the upstream can send.                *)
(***************************************************************************)
LoggedIn ==
    [links |-> TwoLinks,
     tokens |-> <<Token("a@x.com", "S1", "pw"), Token("b@x.com", "S2", "pw")>>]

RequestPaths ==
    { <<"courses", "/", "abc", "/", "courseware">>,
      <<"courses", "/", "abc", "/", "courseware", "/", "unit1">>,
      <<"courseware", "/", "abc">>,
      <<"courses", "/", "abc", "/", "about">>,
      <<"dashboard">> }

Locations ==
    { <<>>,
      LEARNING_MFE_URL \o <<"/", "course", "/", "abc", "/", "home">>,
      LEARNING_MFE_URL \o <<"/", "course", "/", "abc">>,
      LEARNING_MFE_URL \o <<"/", "course", "/", "abc", "?", "tab=1">>,
      LEARNING_MFE_URL \o <<"/", "learning", "/", "course", "/", "xyz", "/", "home">>,
      LEARNING_MFE_URL \o <<"/", "learning">>,
      LEARNING_MFE_URL \o <<"/", "course", "/">>,
      LEARNING_MFE_URL \o <<"/", "learning", "?", "next=", "/", "course", "/", "abc">>,
      <<"http:", "/", "/", "127.0.0.1", ":2000", "/", "course", "/", "abc">>,
      OPENEDX_API_BASE \o <<"/", "login", "?", "next=", "/", "dashboard">>,
      OPENEDX_API_BASE \o <<"/", "dashboard">>,
      OPENEDX_API_BASE \o <<"/", "login", "?", "next=">> \o OPENEDX_API_BASE
          \o <<"/", "dashboard">>,
      OPENEDX_API_BASE \o <<"/", "login", "?", "next=">> \o LEARNING_MFE_URL
          \o <<"/", "course", "/", "abc">>,
      <<"/", "openedx-proxy", "/", "courses", "?", "tab=1">>,
      <<"/", "dashboard">>,
      <<"/", "openedx-proxy", "/", "dashboard">>,
      <<"https:", "/", "/", "other.example", "/", "x">> }

InitRedirect ==
    \E m \in {"GET", "POST"}, p \in RequestPaths, st \in RedirectStatuses \cup {200},
       loc \in Locations, c \in {"", "S9"} :
        Drawn(LoggedIn,
              [DefaultReq EXCEPT !.method = m, !.path = p,
                                 !.referer = ProxyUrl("access") \o L1],
              [DefaultUp EXCEPT !.status = st, !.location = loc, !.set_lms = c])

SpecRedirect == InitRedirect /\ [][NextRequest]_vars

\* the upstream answered the navigation request with a redirect
RedirectAnswered ==
    /\ NavDone /\ out # <<>> /\ up.fails = 0
    /\ up.status \in RedirectStatuses

\* the Location is a URL of the learning micro-app whose path (the part before
\* "?" and "#") holds the segment /course/{id} with a non-empty id
LearningCourse(id) ==
    /\ StartsWith(up.location, LEARNING_MFE_URL)
    /\ LET r == SubSeq(up.location, Len(LEARNING_MFE_URL) + 1, Len(up.location))
           p == SubSeq(r, 1, RunLen(r, {"?", "#"}))
           i == Find(p, <<"/", "course", "/">>, 1)
       IN  /\ i # 0
           /\ Len(p) >= i + 3
           /\ p[i + 3] = id
           /\ id # "/"

C16_RedirectLocation ==
    LET rest == SubSeq(up.location, Len(OPENEDX_API_BASE) + 1, Len(up.location))
    IN  (RedirectAnswered /\ up.location # <<>>) =>
            /\ StartsWith(up.location, OPENEDX_API_BASE) =>
                  /\ resp.kind = "redirect" /\ resp.status = up.status
                  /\ resp.location =
                        FASTAPI_PUBLIC_BASE_URL \o <<"/", "openedx-proxy">> \o rest
                        \o (IF Contains(rest, <<"?">>) THEN <<"&">> ELSE <<"?">>)
                        \o <<"link_id=">> \o resolved
            /\ StartsWith(up.location, <<"/", "openedx-proxy", "/">>) =>
                  /\ resp.kind = "redirect" /\ resp.status = up.status
                  /\ resp.location = up.location

(***************************************************************************)
(* Upstream bodies: one navigation request of a user with a session,       *)
(* against documents put together from markup elements and against short   *)
(* text bodies.                                                            *)
(***************************************************************************)
MaxElems == 2

Anchor(url) == <<"<", "a", " ", "href=", Q>> \o url \o <<Q, ">">>

Elements ==
    { Anchor(<<"/", "courses", "/", "abc">>),
      Anchor(<<"/", "static", "/", "app.css">>),
      Anchor(<<"/">>),
      Anchor(<<"/", "courses", "?", "page=2">>),
      Anchor(<<"/", "go", "/">> \o LEARNING_MFE_URL \o <<"/", "course", "/", "abc">>),
      Anchor(<<"https:", "/", "/", "other.example", "/", "x">>),
      Anchor(LEARNING_MFE_URL \o <<"/", "course", "/", "abc", "/", "home">>),
      <<"<", "form", " ", "action=", Q, "/", "enroll", Q, ">">>,
      <<"<", "img", " ", "src=", Q, "/", "static", "/", "logo.png", Q, ">">>,
      <<"<", "head", ">">>,
      <<"<", "p", ">", "hello", "</", "p", ">">> }

RECURSIVE BodiesOf(_)
BodiesOf(n) ==
    IF n = 0 THEN {<<>>}
    ELSE BodiesOf(n - 1) \cup {b \o e : b \in BodiesOf(n - 1), e \in Elements}

TextBodies ==
    { <<"/", "course_modes", "/", "choose", "/", "abc+run", "/">>,
      <<" ", "/", "course_modes", "/", "choose", "/", "abc+run", "/", "\r", "\n">>,
      <<"/", "dashboard", "?", "tab=1">>,
      <<"/", "openedx-proxy", "/", "dashboard">>,
      <<"/", "x*500">>,
      <<"/", "a", "\n", "/", "b">>,
      <<"http:", "/", "/", "other.example", "/", "x">>,
      <<"{", Q, "redirect_url", Q, ":", Q, "/", "dashboard", Q, "}">>,
      <<"ok">> }

InitRewrite ==
    \E m \in {"GET", "POST"}, st \in {200, 404},
       ct \in {"text/html", "application/json", "text/plain"},
       b \in BodiesOf(MaxElems) \cup TextBodies :
        Drawn(LoggedIn,
              [DefaultReq EXCEPT !.method = m, !.path = <<"dashboard">>,
                                 !.referer = ProxyUrl("access") \o L1],
              [DefaultUp EXCEPT !.status = st, !.ctype = ct, !.body = b])

SpecRewrite == InitRewrite /\ [][NextRequest]_vars

\* the upstream answered a navigation GET with 200 and a document
Get200 ==
    /\ NavDone /\ req.method = "GET" /\ out # <<>> /\ up.fails = 0
    /\ up.status = 200

\* the attribute href="/p" stands at position i of the upstream body and ends
\* at position j; HrefPath is "/p"
HrefAt(i, j) ==
    /\ i + 3 <= j /\ j <= Len(up.body)
    /\ SubSeq(up.body, i, i + 2) = <<"href=", Q, "/">>
    /\ up.body[j] = Q
    /\ \A k \in (i + 2)..(j - 1) : up.body[k] # Q

HrefPath(i, j) == SubSeq(up.body, i + 2, j - 1)

ProxiedHref(path) ==
    <<"href=", Q>> \o FASTAPI_PUBLIC_BASE_URL \o <<"/", "openedx-proxy">> \o path
    \o <<"?", "link_id=">> \o resolved \o <<Q>>

C10_PathBodyBecomesProxyUrl ==
    LET body == Strip(up.body)
    IN  ( /\ NavDone /\ req.method = "POST" /\ out # <<>> /\ up.fails = 0
          /\ up.status = 200
          /\ body # <<>> /\ body[1] = "/"
          /\ \A i \in 1..Len(body) : body[i] \notin {"\n", "x*500"}
          /\ ~StartsWith(body, <<"/", "openedx-proxy", "/">>) )
        => /\ resp.status = 200 /\ resp.kind = "text"
           /\ resp.body = FASTAPI_PUBLIC_BASE_URL \o <<"/", "openedx-proxy">> \o body
                          \o <<IF \E i \in 1..Len(body) : body[i] = "?" THEN "&" ELSE "?",
                               "link_id=">> \o resolved

C10_Witness ==
    /\ NavDone /\ req.method = "POST" /\ resolved = L1
    /\ up.body = <<"/", "dashboard", "?", "tab=1">>
    /\ resp.kind = "text"
    /\ resp.body = FASTAPI_PUBLIC_BASE_URL
                   \o <<"/", "openedx-proxy", "/", "dashboard", "?", "tab=1", "&", "link_id=", "L1">>

(***************************************************************************)
(* Form posts: one navigation POST of a user with a session, with every    *)
(* combination of inbound CSRF headers and cookies, body encodings and     *)
(* failing upstream calls.                                                 *)
(***************************************************************************)
MaxFails == 3

CRLF == <<"\r", "\n">>

\* a multipart body of one ordinary part followed by the part of the CSRF
\* field: its headers, an empty line, its value
Multipart(headers, eol, value) ==
    <<"--b">> \o eol \o <<"Content-Disposition: form-data; ", "name=\"course_id\"">> \o eol
    \o eol \o <<"abc">> \o eol
    \o <<"--b">> \o eol \o headers \o eol \o eol \o value \o eol \o <<"--b--">> \o eol

CsrfDisposition == <<"Content-Disposition: form-data; ", CsrfFieldName>>

PostBodies ==
    { Multipart(CsrfDisposition, CRLF, <<"T1">>),
      Multipart(CsrfDisposition, CRLF, <<"T2">>),
      Multipart(CsrfDisposition, <<"\n">>, <<"T1">>),
      Multipart(CsrfDisposition \o CRLF \o <<"Content-Type: text/plain">>, CRLF, <<"T1">>),
      Multipart(<<"Content-Disposition: form-data; ", "name=\"other\"">>, CRLF, <<"T1">>),
      <<"csrfmiddlewaretoken", "=", "T1", "&", "course_id", "=", "abc">>,
      <<"course_id", "=", "abc", "&", "csrfmiddlewaretoken", "=", "T2">>,
      <<"course_id", "=", "abc">>,
      <<"{", Q, "csrfmiddlewaretoken", Q, ":", Q, "T1", Q, "}">>,
      <<>> }

InitCsrf ==
    \E ct \in {"multipart/form-data", "application/x-www-form-urlencoded",
               "application/json", "text/plain"},
       b \in PostBodies, h \in {<<>>, <<"H1">>}, h2 \in {<<>>, <<"H2">>},
       k \in {<<>>, <<"K1">>}, k2 \in {<<>>, <<"K2">>}, ff \in BOOLEAN,
       n \in 0..MaxFails :
        Drawn(LoggedIn,
              [DefaultReq EXCEPT !.method = "POST", !.path = <<"enroll">>,
                                 !.referer = ProxyUrl("access") \o L1,
                                 !.ctype = ct, !.body = b, !.hdr_csrf = h,
                                 !.hdr_csrf2 = h2, !.ck_csrf = k, !.ck_edxcsrf = k2,
                                 !.form_fails = ff],
              [DefaultUp EXCEPT !.fails = n])

SpecCsrf == InitCsrf /\ [][HandlePost]_vars

\* the multipart body holds a part named csrfmiddlewaretoken whose content,
\* after the empty line that ends the part's headers, is T
MultipartField(T) ==
    \E i \in 1..Len(req.body) :
        /\ req.body[i] = CsrfFieldName
        /\ LET j == Find(req.body, CRLF \o CRLF, i)
           IN  j # 0 /\ StartsWith(SubSeq(req.body, j + 4, Len(req.body)), T \o CRLF)

UrlencodedField(T) ==
    \/ StartsWith(req.body, <<"csrfmiddlewaretoken", "=">> \o T)
    \/ Contains(req.body, <<"&", "csrfmiddlewaretoken", "=">> \o T)

\* C8: for a navigation POST whose body is multipart/form-data or
\* application/x-www-form-urlencoded and holds the field csrfmiddlewaretoken = T,
\* every outbound upstream request carries T as CSRF cookie (csrftoken and
\* edxcsrftoken) and as CSRF header, whatever the inbound request carried.
C8_FormTokenForwarded ==
    \A T \in {<<"T1">>, <<"T2">>} :
        ( /\ NavDone /\ req.method = "POST" /\ out # <<>>
          /\ \/ req.ctype = "multipart/form-data" /\ MultipartField(T)
             \/ req.ctype = "application/x-www-form-urlencoded" /\ UrlencodedField(T) )
        => \A n \in 1..Len(out) :
              /\ out[n].csrftoken = T /\ out[n].edxcsrftoken = T
              /\ out[n].x_csrftoken = T /\ out[n].x_csrf_token = T

\* the JSON body holds the member "csrfmiddlewaretoken": "T"
JsonField(T) ==
    Contains(req.body, <<Q, "csrfmiddlewaretoken", Q, ":", Q>> \o T \o <<Q>>)

\* C20: a navigation POST whose content type is JSON or none of the recognized
\* ones and whose body holds the field csrfmiddlewaretoken = T sends T
\* upstream as CSRF cookie and as CSRF header, as the multipart and URL-encoded
\* branches do.
C20_JsonTokenForwarded ==
    \A T \in {<<"T1">>, <<"T2">>} :
        ( /\ NavDone /\ req.method = "POST" /\ out # <<>>
          /\ req.ctype \in {"application/json", "text/plain"}
          /\ JsonField(T) \/ UrlencodedField(T) )
        => \A n \in 1..Len(out) :
              /\ out[n].csrftoken = T /\ out[n].edxcsrftoken = T
              /\ out[n].x_csrftoken = T /\ out[n].x_csrf_token = T

(***************************************************************************)
(* The service over time: requests arrive one after another and each is    *)
(* handled as a whole against the tables the earlier ones left behind.     *)
(***************************************************************************)
MaxLinks == 2

\* request rq, answered by the upstream as u says, is handled with effect e
Handled(rq, u, e, id) ==
    /\ phase = "done"
    /\ req' = rq
    /\ up' = u
    /\ resp' = AddIframeHeaders(e.resp)
    /\ out' = e.out
    /\ links' = e.links
    /\ tokens' = e.tokens
    /\ resolved' = id
    /\ phase' = "done"
    /\ UNCHANGED inflight

Page == <<"<", "head", ">", "<", "a", " ", "href=", Q, "/", "courses", "/", "abc", Q, ">", "x*1000">>

LearnerDashboardUrl == <<"http:", "/", "/", "localhost", ":1996", "/", "learner-dashboard">>

\* the requests that arrive
Requests ==
    {[DefaultReq EXCEPT !.endpoint = "generate-link", !.email = e] : e \in {"a@x.com", "b@x.com"}}
    \cup {[DefaultReq EXCEPT !.endpoint = "generate-link", !.email = "a@x.com", !.iframe = TRUE],
          [DefaultReq EXCEPT !.endpoint = "generate-link", !.email = "A@X.com"],
          [DefaultReq EXCEPT !.endpoint = "manage-existing-user", !.email = "a@x.com"],
          [DefaultReq EXCEPT !.endpoint = "sso", !.email = "a@x.com"],
          [DefaultReq EXCEPT !.endpoint = "auto-login", !.email = "a@x.com"],
          [DefaultReq EXCEPT !.endpoint = "custom-login", !.email = "a@x.com",
                             !.password = "Secret#9"],
          [DefaultReq EXCEPT !.endpoint = "custom-login", !.email = "a@x.com"],
          [DefaultReq EXCEPT !.endpoint = "access", !.arg = L1, !.format = "json"],
          [DefaultReq EXCEPT !.endpoint = "access", !.arg = L1, !.iframe = TRUE]}
    \cup {[DefaultReq EXCEPT !.endpoint = "access", !.arg = id] : id \in {L1, <<"L9">>}}
    \cup {[DefaultReq EXCEPT !.endpoint = "dashboard-proxy", !.arg = id] : id \in {L1, <<"L9">>}}
    \cup {[DefaultReq EXCEPT !.method = m, !.referer = ProxyUrl("dashboard-proxy") \o L1]
            : m \in {"GET", "POST"}}
    \cup {[DefaultReq EXCEPT !.method = "GET", !.ck_lms = "S1"]}

\* what the upstream does with a request
Upstreams(rq) ==
    IF rq.endpoint \in {"access", "auto-login"}
    THEN {[DefaultUp EXCEPT !.accepts = DEFAULT_USER_PASSWORD, !.set_lms = "S1", !.set_sid = "S2"],
          [DefaultUp EXCEPT !.accepts = "password123"],
          [DefaultUp EXCEPT !.accepts = ""],
          [DefaultUp EXCEPT !.fails = 1]}
    ELSE IF rq.endpoint = "sso"
    THEN {[DefaultUp EXCEPT !.accepts = DEFAULT_USER_PASSWORD, !.set_lms = "S1", !.set_sid = "S2"],
          [DefaultUp EXCEPT !.accepts = DEFAULT_USER_PASSWORD, !.reg_status = 500,
                            !.set_sid = "S2"],
          [DefaultUp EXCEPT !.accepts = ""],
          [DefaultUp EXCEPT !.fails = 1]}
    ELSE IF rq.endpoint = "custom-login"
    THEN {[DefaultUp EXCEPT !.accepts = "Secret#9", !.set_sid = "S2"],
          [DefaultUp EXCEPT !.accepts = ""],
          [DefaultUp EXCEPT !.fails = 1]}
    ELSE IF rq.endpoint = "dashboard-proxy"
    THEN {[DefaultUp EXCEPT !.status = st, !.body = Page, !.set_lms = c]
            : st \in {200, 302, 500}, c \in {"", "S9"}}
         \cup {[DefaultUp EXCEPT !.body = <<"moved">>, !.final_url = LearnerDashboardUrl,
                                 !.mfe_status = st, !.mfe_body = Page, !.mfe_set_lms = "S9"]
                 : st \in {0, 200, 404}}
         \cup {[DefaultUp EXCEPT !.status = 302, !.final_url = LearnerDashboardUrl],
               [DefaultUp EXCEPT !.body = <<"ok">>],
               [DefaultUp EXCEPT !.fails = 1]}
    ELSE {[DefaultUp EXCEPT !.body = Anchor(<<"/", "courses", "/", "abc">>),
                            !.set_lms = c.lms, !.set_sid = c.sid]
            : c \in {[lms |-> "", sid |-> ""], [lms |-> "S9", sid |-> ""],
                     [lms |-> "", sid |-> "S9"]}}
         \cup {[DefaultUp EXCEPT !.fails = 1]}

\* the requests of one entry point
To(endpoint) == {rq \in Requests : rq.endpoint = endpoint}

\* a request that adds a LinkRecord arrives only below MaxLinks records
DoGenerateLink ==
    \E rq \in To("generate-link") :
        /\ LinkByEmail(links, ValidateEmail(rq.email)) = 0 => Len(links) < MaxLinks
        /\ Handled(rq, DefaultUp, GenerateLink(links, tokens, rq), <<>>)

DoManageExistingUser ==
    \E rq \in To("manage-existing-user") :
        /\ Len(links) < MaxLinks
        /\ Handled(rq, DefaultUp, ManageExistingUser(links, tokens, rq), <<>>)

DoAccess ==
    \E rq \in To("access") : \E u \in Upstreams(rq) :
        Handled(rq, u, AccessLink(links, tokens, rq, u), rq.arg)

DoSso ==
    \E rq \in To("sso") : \E u \in Upstreams(rq) :
        Handled(rq, u, SsoLogin(links, tokens, rq, u), <<>>)

DoAutoLogin ==
    \E rq \in To("auto-login") : \E u \in Upstreams(rq) :
        Handled(rq, u, AutoLoginExistingUser(links, tokens, rq, u), <<>>)

DoCustomLogin ==
    \E rq \in To("custom-login") : \E u \in Upstreams(rq) :
        Handled(rq, u, CustomPasswordLogin(links, tokens, rq, u), <<>>)

DoDashboard ==
    \E rq \in To("dashboard-proxy") : \E u \in Upstreams(rq) :
        Handled(rq, u, DashboardProxy(links, tokens, rq, u), rq.arg)

\* the navigation handlers write neither table
Proxied(rq, u, r) == Handled(rq, u, Effect(r.resp, r.out, links, tokens), r.link_id)

DoGet ==
    \E rq \in To("openedx-proxy") : \E u \in Upstreams(rq) :
        /\ rq.method = "GET"
        /\ Proxied(rq, u, OpenedxProxy(links, tokens, rq, u))

DoPost ==
    \E rq \in To("openedx-proxy") : \E u \in Upstreams(rq) :
        /\ rq.method = "POST"
        /\ Proxied(rq, u, OpenedxProxyPost(links, tokens, rq, u))

Init ==
    /\ links = <<>>
    /\ tokens = <<>>
    /\ req = DefaultReq
    /\ up = DefaultUp
    /\ phase = "done"
    /\ resp = NoResponse
    /\ out = <<>>
    /\ resolved = <<>>
    /\ inflight = <<>>

Next ==
    \/ DoGenerateLink
    \/ DoManageExistingUser
    \/ DoAccess
    \/ DoSso
    \/ DoAutoLogin
    \/ DoCustomLogin
    \/ DoDashboard
    \/ DoGet
    \/ DoPost

Spec == Init /\ [][Next]_vars

(***************************************************************************)
(* Claims about the service over time.                                     *)
(***************************************************************************)
\* a proxied fetch has been answered by the upstream
Fetched ==
    /\ phase = "done"
    /\ req.endpoint \in {"dashboard-proxy", "openedx-proxy"}
    /\ out # <<>>
    /\ up.fails = 0

\* the session cookie carried by the upstream's answer to the last call made
LastSessionCookie ==
    IF Len(out) = 2 /\ req.endpoint = "dashboard-proxy" /\ up.mfe_status # 0
    THEN up.mfe_set_lms
    ELSE IF up.set_lms # "" THEN up.set_lms ELSE up.set_sid

\* the SessionRecord the next fetch for the resolved link_id will read
RecordOf(id) == tokens[TokenByEmail(tokens, links[LinkById(links, id)].email)]

\* C3 (as claimed): whenever the upstream's answer to a proxied fetch
\* (dashboard-proxy, navigation GET, navigation POST) carries a session cookie
\* different from the stored one the fetch sent, the SessionRecord the next
\* fetch reads holds the rotated value.
C3_RotatedCookieStored ==
    (Fetched /\ LastSessionCookie \notin {"", out[1].lms_sessionid})
        => RecordOf(resolved).access_token = LastSessionCookie

\* the password values in play: the default, the stored and the attempted ones
PasswordValues ==
    ({DEFAULT_USER_PASSWORD, req.password}
     \cup {tokens[i].password : i \in 1..Len(tokens)}
     \cup {out[i].password : i \in 1..Len(out)}) \ {""}

\* C7 (as claimed): no failure response body, from a proxy entry point or a
\* credential flow, contains a password value.
C7_NoPasswordInFailureBody ==
    (phase = "done" /\ resp.kind \in {"error", "errorpage"})
        => \A i \in 1..Len(resp.body) : resp.body[i] \notin PasswordValues

(***************************************************************************)
(* Documents: one fetch of a user with a session, through navigation GET,  *)
(* navigation POST or dashboard-proxy, answered 200 with an HTML document  *)
(* built from the elements the three rewriters look for.                   *)
(***************************************************************************)
\* the request at hand is answered with effect e
Applied(e, id) ==
    /\ phase = "ready"
    /\ resp' = AddIframeHeaders(e.resp)
    /\ out' = e.out
    /\ links' = e.links
    /\ tokens' = e.tokens
    /\ resolved' = id
    /\ phase' = "done"
    /\ UNCHANGED <<req, up, inflight>>

HandleDashboard ==
    /\ req.endpoint = "dashboard-proxy"
    /\ Applied(DashboardProxy(links, tokens, req, up), req.arg)

NextDocument == HandleGet \/ HandlePost \/ HandleDashboard

Img(url) == <<"<", "img", " ", "src=", Q>> \o url \o <<Q, ">">>

\* elements the dashboard's asset rules look for, beside those of Elements
AssetElements ==
    { Img(<<"/", "asset-v1:", "org+c+r", "/", "pic.png">>),
      Anchor(<<"/", "asset-v1:", "org+c+r", "/", "doc.pdf">>),
      Img(<<"/", "learner-dashboard", "/", "app.js">>),
      Anchor(<<"/", "learning", "/", "course", "/", "abc">>),
      <<"url(", Q, "/", "static", "/", "bg.png", Q, ")">>,
      <<"url(", "/", "static", "/", "bg.png", ")">>,
      <<"<", "form", " ", "action=", Q, "/", "search", "?", "q=a", Q, ">">> }

RECURSIVE DocumentsOf(_)
DocumentsOf(n) ==
    IF n = 0 THEN {<<>>}
    ELSE DocumentsOf(n - 1)
         \cup {b \o e : b \in DocumentsOf(n - 1), e \in Elements \cup AssetElements}

\* a paragraph long enough for the dashboard's "content too short" test
Filler == <<"<", "p", ">", "x*100", "</", "p", ">">>

InitDocument ==
    \E e \in {"nav-get", "nav-post", "dashboard-proxy"}, b \in DocumentsOf(MaxElems) :
        Drawn(LoggedIn,
              IF e = "dashboard-proxy"
              THEN [DefaultReq EXCEPT !.endpoint = e, !.arg = L1]
              ELSE [DefaultReq EXCEPT !.method = IF e = "nav-get" THEN "GET" ELSE "POST",
                                      !.referer = ProxyUrl("dashboard-proxy") \o L1],
              [DefaultUp EXCEPT !.body = Filler \o b])

SpecDocument == InitDocument /\ [][NextDocument]_vars

\* a navigation request was answered with the rewritten document
NavHtml ==
    /\ NavDone /\ out # <<>> /\ up.fails = 0 /\ up.status = 200
    /\ resp.status = 200 /\ resp.kind = "html"

\* dashboard-proxy answered with the page around the rewritten document
DashHtml ==
    /\ phase = "done" /\ req.endpoint = "dashboard-proxy"
    /\ out # <<>> /\ up.fails = 0 /\ up.status = 200
    /\ resp.status = 200 /\ resp.kind = "html"

\* number of places of s where m stands
Occurrences(s, m) == Cardinality({i \in 1..Len(s) : StartsWith(SubSeq(s, i, Len(s)), m)})

BaseTag == <<"<", "base", " ", "href=", Q>> \o OPENEDX_API_BASE \o <<"/", Q, ">">>

\* o2, the rewriter's output for o1, has every URL of o1 as it was: outside
\* the base tags the documents are equal, and o2 holds no more proxy origins
\* and no more link_id parameters than o1
SameUrls(o1, o2) ==
    /\ ReplaceAll(o2, BaseTag, <<>>) = ReplaceAll(o1, BaseTag, <<>>)
    /\ Occurrences(o2, FASTAPI_PUBLIC_BASE_URL) = Occurrences(o1, FASTAPI_PUBLIC_BASE_URL)
    /\ Occurrences(o2, <<"link_id=">>) = Occurrences(o1, <<"link_id=">>)

\* the rewritten document inside the page dashboard-proxy returned
Rewritten == SubSeq(resp.body, 9, Len(resp.body) - Len(DashboardHtml(<<>>, "", "")) + 8)

\* C11: the rewriter of navigation GET and POST, and the rewriter of
\* dashboard-proxy, applied to its own output with the same link_id, leaves
\* every URL of that output unchanged: no URL gains a second proxy origin or a
\* second link_id parameter (only a further <base> tag is added after <head>).
C11_RewriteIdempotent ==
    /\ NavHtml => SameUrls(resp.body, RewriteHtml(resp.body, resolved))
    /\ DashHtml =>
         /\ Rewritten = RewriteDashboard(up.body, resolved)
         /\ SameUrls(Rewritten, RewriteDashboard(Rewritten, resolved))

C11_Witness ==
    /\ NavHtml /\ resolved = L1
    /\ up.body = Filler \o Anchor(<<"/", "courses", "/", "abc">>)
                 \o <<"<", "img", " ", "src=", Q, "/", "static", "/", "logo.png", Q, ">">>
    /\ Contains(resp.body, ProxiedHref(<<"/", "courses", "/", "abc">>))
    /\ Contains(resp.body, <<"src=", Q>> \o StaticBase \o <<"/", "static", "/", "logo.png", Q>>)
    /\ RewriteHtml(resp.body, resolved) = resp.body

(***************************************************************************)
(* Answers: one fetch of a user with a session, through navigation GET,    *)
(* navigation POST or dashboard-proxy, against every kind of upstream      *)
(* answer, with and without cookies set by the upstream.                   *)
(***************************************************************************)
InitAnswer ==
    \E e \in {"nav-get", "nav-post", "dashboard-proxy"},
       st \in {200, 302, 404, 500}, ct \in {"text/html", "application/json", "text/plain"},
       b \in {Filler, <<"{", Q, "ok", Q, ":", "true", "}">>, <<"/", "dashboard">>},
       lms \in {"", "S9"}, sid \in {"", "S8"},
       csrf \in {<<>>, <<"T1">>}, edxcsrf \in {<<>>, <<"T2">>},
       f \in {0, 1, 3}, x \in {"timeout", "connection"} :
        Drawn(LoggedIn,
              IF e = "dashboard-proxy"
              THEN [DefaultReq EXCEPT !.endpoint = e, !.arg = L1]
              ELSE [DefaultReq EXCEPT !.method = IF e = "nav-get" THEN "GET" ELSE "POST",
                                      !.referer = ProxyUrl("dashboard-proxy") \o L1],
              [DefaultUp EXCEPT !.status = st, !.ctype = ct, !.body = b,
                                !.location = IF st = 302 THEN <<"/", "login">> ELSE <<>>,
                                !.set_lms = lms, !.set_sid = sid,
                                !.set_csrf = csrf, !.set_edxcsrf = edxcsrf, !.fails = f,
                                !.exc = x])

SpecAnswer == InitAnswer /\ [][NextDocument]_vars

\* a proxy entry point has answered
ProxyDone == phase = "done" /\ req.endpoint \in {"openedx-proxy", "dashboard-proxy"}

\* C12 (as claimed): every response of a proxy entry point carries the two
\* iframe-embedding headers, and whenever the upstream answered, on every
\* branch, the response sets each session cookie and the CSRF cookie that the
\* upstream's answer set.
C12_HeadersAndCookiesOnEveryBranch ==
    ProxyDone =>
        /\ "X-Frame-Options: ALLOWALL" \in resp.headers
        /\ "Content-Security-Policy: frame-ancestors *" \in resp.headers
        /\ (out # <<>> /\ up.fails = 0) =>
              /\ resp.cookies.lms_sessionid = up.set_lms
              /\ resp.cookies.sessionid = up.set_sid
              /\ (up.set_csrf # <<>> \/ up.set_edxcsrf # <<>>) => resp.cookies.csrftoken # <<>>

\* every upstream call of a navigation request raised
UpstreamRaised == NavDone /\ out # <<>> /\ up.fails >= Len(out)

\* C13 (as claimed): a navigation request whose upstream calls time out is
\* answered 504, one whose upstream calls fail to connect is answered 502;
\* the two never get the same status.
C13_TimeoutIs504ConnectionIs502 ==
    UpstreamRaised =>
        /\ up.exc = "timeout" => resp.status = 504
        /\ up.exc = "connection" => resp.status = 502

\* the attribute attr"/p" stands at position i of the upstream body and ends
\* at position j
AttrAt(attr, i, j) ==
    /\ i + 3 <= j /\ j <= Len(up.body)
    /\ SubSeq(up.body, i, i + 2) = <<attr, Q, "/">>
    /\ up.body[j] = Q
    /\ \A k \in (i + 2)..(j - 1) : up.body[k] # Q

AttrPath(i, j) == SubSeq(up.body, i + 2, j - 1)

\* the path begins like a static asset
StaticPath(p) == StartsWith(p, <<"/", "static", "/">>) \/ StartsWith(p, <<"/", "asset-v1:">>)

\* the path is one the rewriters handle by a rule of its own: a static asset,
\* a micro-app's path or a URL of the learning micro-app
OwnRulePath(p) ==
    \/ StaticPath(p)
    \/ p[2] \in {"learner-dashboard", "authn", "learning", "course-authoring",
                 "account", "profile"}
    \/ Contains(p, <<"localhost", ":2000">>)

\* C17: every href="/p?q" and action="/p?q" of the upstream HTML, /p not a
\* static asset, is emitted as the navigation-proxy URL of /p?q followed by
\* &link_id=L; a path without a query string gets ?link_id=L.  Stated for
\* navigation GET, navigation POST and dashboard-proxy.
C17_QuerySeparator ==
    (NavHtml \/ DashHtml) =>
        \A attr \in {"href=", "action="} : \A i, j \in 1..Len(up.body) :
            (AttrAt(attr, i, j) /\ Len(AttrPath(i, j)) >= 2 /\ ~OwnRulePath(AttrPath(i, j)))
            => Contains(resp.body,
                        <<attr, Q>> \o FASTAPI_PUBLIC_BASE_URL \o <<"/", "openedx-proxy">>
                        \o AttrPath(i, j)
                        \o (IF Contains(AttrPath(i, j), <<"?">>) THEN <<"&">> ELSE <<"?">>)
                        \o <<"link_id=">> \o resolved \o <<Q>>)

\* C18: in navigation GET and POST every href="/path" of the upstream HTML
\* whose path begins with /static/ or /asset-v1: is emitted as
\* href="{proxyBase}/openedx-static/path", without a link_id.
C18_StaticHrefToStaticProxy ==
    NavHtml =>
        \A i, j \in 1..Len(up.body) :
            (AttrAt("href=", i, j) /\ StaticPath(AttrPath(i, j)))
            => Contains(resp.body,
                        <<"href=", Q>> \o FASTAPI_PUBLIC_BASE_URL \o <<"/", "openedx-static">>
                        \o AttrPath(i, j) \o <<Q>>)

\* C19: navigation GET and navigation POST classify alike: when the upstream
\* answers 200 with a JSON content type and a JSON body, the proxy answers 200
\* with that body, unchanged, as a JSON response, and forwards the upstream's
\* cookies.
C19_JsonPassedThrough ==
    ( /\ NavDone /\ out # <<>> /\ up.fails < Len(out)
      /\ up.status = 200 /\ up.ctype = "application/json"
      /\ StartsWith(up.body, <<"{">>) )
    => /\ resp.status = 200 /\ resp.kind = "json"
       /\ resp.body = up.body
       /\ resp.cookies.lms_sessionid = up.set_lms
       /\ resp.cookies.edx_link_id = resolved

(***************************************************************************)
(* The access entry point over time.                                       *)
(***************************************************************************)
\* this step handled a request to /access/{link_id} of a registered link
AccessStep == req'.endpoint = "access" /\ LinkById(links, req'.arg) # 0

\* the e-mail of the link the request of this step names
AccessEmail == links[LinkById(links, req'.arg)].email

\* the session cookie the upstream set during the login of this step
ObtainedCookie == IF up'.set_lms # "" THEN up'.set_lms ELSE up'.set_sid

\* the step ended in an error response and wrote nothing
AccessFailed == resp'.status >= 400 /\ tokens' = tokens

\* after the step the SessionRecord of the e-mail holds cookie c and the
\* password the upstream accepted
AccessStored(c) ==
    LET t == TokenByEmail(tokens', AccessEmail)
    IN  /\ t # 0
        /\ tokens'[t].access_token = c
        /\ tokens'[t].password = up'.accepts

\* the step answered a redirect to the dashboard proxy of the same link_id
AccessRedirected ==
    /\ resp'.status = 307
    /\ resp'.location = ProxyUrl("dashboard-proxy") \o req'.arg
    /\ resp'.cookies.edx_link_id = req'.arg

\* the step answered 200 with a document that names the same link_id: the
\* iframe page of the dashboard proxy or the JSON holding the access URL
AccessDocument ==
    /\ resp'.status = 200
    /\ Contains(resp'.body, <<"/">> \o req'.arg)

\* C14 (as stated): a request to /access/{link_id} of a registered link ends
\* in exactly one of two ways: an error response with the SessionRecord left
\* unchanged, or the SessionRecord of the link's e-mail holds the cookie and
\* the password obtained by this login and the browser is redirected to the
\* proxy for the same link_id.
C14_FailsOrStoresAndRedirects ==
    [][AccessStep =>
         (AccessFailed /\ ~(AccessStored(ObtainedCookie) /\ AccessRedirected))
         \/ (~AccessFailed /\ AccessStored(ObtainedCookie) /\ AccessRedirected)]_vars

\* C14 (amended): the request ends in exactly one of two ways: an error
\* response with the SessionRecord left unchanged, or the SessionRecord of
\* the link's e-mail holds the password the login used and the session
\* cookie it obtained ("session_based" when the upstream set none).  In the
\* second case the browser is redirected to the dashboard proxy of the same
\* link_id only when the request is neither format=json nor an iframe
\* request and a session cookie was obtained; otherwise the answer is a 200
\* document naming the same link_id.
C14_FailsOrStores ==
    [][AccessStep =>
         LET stored == IF ObtainedCookie # "" THEN ObtainedCookie ELSE "session_based"
             redirect == req'.format # "json" /\ ~req'.iframe /\ ObtainedCookie # ""
             success == /\ AccessStored(stored)
                        /\ resp'.status < 400
                        /\ IF redirect THEN AccessRedirected ELSE AccessDocument
         IN  (AccessFailed /\ ~success) \/ (~AccessFailed /\ success)]_vars

\* an access request of a registered link was answered with the redirect to
\* its dashboard proxy, and the SessionRecord of its e-mail holds the cookie
\* and the password of this login
C14_Witness ==
    /\ req.endpoint = "access" /\ req.format # "json" /\ ~req.iframe
    /\ resp.status = 307
    /\ resp.location = ProxyUrl("dashboard-proxy") \o req.arg
    /\ up.accepts = DEFAULT_USER_PASSWORD
    /\ LinkById(links, req.arg) # 0
    /\ LET t == TokenByEmail(tokens, links[LinkById(links, req.arg)].email)
       IN  t # 0 /\ tokens[t].access_token = up.set_lms
                 /\ tokens[t].password = DEFAULT_USER_PASSWORD

(***************************************************************************)
(* The two tables over time.                                               *)
(***************************************************************************)
\* C21: no operation changes or removes a LinkRecord: over every step of the
\* service each row of the UserLink table stays where it is with the same
\* (link_id, email) pair, so every LinkRecord that once existed still exists
\* and the table only grows.
C21_LinkRecordsKept ==
    [][/\ Len(links') >= Len(links)
       /\ \A i \in 1..Len(links) : links'[i] = links[i]]_vars

\* with two LinkRecords in place an access request has stored a SessionRecord
\* and a further generate-link request for a known e-mail was answered
C21_Witness ==
    /\ Len(links) = 2 /\ tokens # <<>>
    /\ req.endpoint = "generate-link"
    /\ LinkByEmail(links, ValidateEmail(req.email)) # 0
    /\ resp.status = 200

\* the spellings under which the requests write an e-mail address
Spellings(e) == IF e = "a@x.com" THEN {"a@x.com", "A@X.com"} ELSE {e}

\* the response names the access URL of link_id id
NamesLink(r, id) ==
    Contains(r.body, FASTAPI_PUBLIC_BASE_URL \o <<"/", "access", "/">> \o id)

\* C22: generate-link is idempotent per e-mail.  Over every step the first
\* LinkRecord of an e-mail stays the first with its link_id, and a
\* generate-link request for an e-mail, in any spelling that normalizes to it,
\* answers with the link_id of that LinkRecord and adds nothing when the
\* e-mail has one, and adds exactly one LinkRecord for the normalized e-mail
\* and answers with its link_id when it has none: every request returns the
\* link_id of the first and only the first adds a LinkRecord.
C22_GenerateLinkIdempotent ==
    [][\A e \in {"a@x.com", "b@x.com"} :
         LET l == LinkByEmail(links, e)
         IN  /\ l # 0 => /\ LinkByEmail(links', e) = l
                         /\ links'[l] = links[l]
             /\ (req'.endpoint = "generate-link" /\ req'.email \in Spellings(e)) =>
                  IF l # 0
                  THEN links' = links /\ NamesLink(resp', links[l].link_id)
                  ELSE /\ Len(links') = Len(links) + 1
                       /\ SubSeq(links', 1, Len(links)) = links
                       /\ links'[Len(links')].email = e
                       /\ NamesLink(resp', links'[Len(links')].link_id)]_vars

\* a generate-link request written A@X.com was answered with the link_id the
\* LinkRecord of a@x.com holds, while another e-mail has a LinkRecord too
C22_Witness ==
    /\ req.endpoint = "generate-link" /\ req.email = "A@X.com"
    /\ Len(links) = 2
    /\ LinkByEmail(links, "a@x.com") # 0
    /\ NamesLink(resp, links[LinkByEmail(links, "a@x.com")].link_id)
    /\ LinkByEmail(links, "A@X.com") = 0

\* the login requests among the upstream calls o, in order
LoginAttempts(o) ==
    SelectSeq(o, LAMBDA c : /\ c.method = "POST"
                            /\ c.url[Len(c.url)] \in {"user_api/v1/account/login_session/",
                                                      "login_ajax"})

\* the e-mail a request to the access or the sso entry point logs in, "" when
\* the link is not registered
LoginEmail(ls, rq) ==
    IF rq.endpoint = "sso" THEN ValidateEmail(rq.email)
    ELSE IF LinkById(ls, rq.arg) = 0 THEN ""
    ELSE ls[LinkById(ls, rq.arg)].email

\* C23: when a SessionRecord with a stored password exists for an e-mail, a
\* request to the access or the sso entry point for that e-mail makes its
\* first login request upstream with the stored password.
C23_StoredPasswordFirst ==
    [][LET t == TokenByEmail(tokens, LoginEmail(links, req'))
       IN  ( /\ req'.endpoint \in {"access", "sso"}
             /\ LoginEmail(links, req') # ""
             /\ t # 0 /\ tokens[t].password # ""
             /\ LoginAttempts(out') # <<>> )
           => LoginAttempts(out')[1].password = tokens[t].password]_vars

(***************************************************************************)
(* Handlers in progress at the same time.  The endpoints are plain `def`   *)
(* functions, which the framework runs on a pool of threads, each with a   *)
(* database session of its own (get_db): between the query of a handler    *)
(* and its commit other handlers may run.                                  *)
(***************************************************************************)
MaxInflight == 2

\* a request arrives and its handler has done its reads
Started(rq, existing_link, variation) ==
    /\ Len(inflight) < MaxInflight
    /\ Len(links) + Len(inflight) < MaxLinks
    /\ inflight' = Append(inflight, [rq |-> rq, existing_link |-> existing_link,
                                     variation |-> variation, read |-> <<>>])
    /\ UNCHANGED <<links, tokens, phase, req, up, resp, out, resolved>>

\* the handler at place i of those in progress ends with effect e, the
\* upstream having answered as u says
Finished(i, u, e) ==
    /\ req' = inflight[i].rq
    /\ up' = u
    /\ resp' = AddIframeHeaders(e.resp)
    /\ out' = e.out
    /\ links' = e.links
    /\ tokens' = e.tokens
    /\ inflight' = SubSeq(inflight, 1, i - 1) \o SubSeq(inflight, i + 1, Len(inflight))
    /\ UNCHANGED <<phase, resolved>>

\* generate_link up to its query (main.py:262)
StartGenerateLink ==
    \E rq \in To("generate-link") : Started(rq, ExistingLink(links, rq), 0)

\* generate_link from its query on: insert, commit, response (main.py:263-333)
FinishGenerateLink ==
    \E i \in 1..Len(inflight) :
        /\ inflight[i].rq.endpoint = "generate-link"
        /\ Finished(i, DefaultUp, GenerateLinkFound(links, tokens, inflight[i].rq,
                                                    inflight[i].existing_link))

\* manage_existing_user up to the query that finds a free variation
\* (main.py:2842-2845)
StartManageExistingUser ==
    \E rq \in To("manage-existing-user") : Started(rq, <<>>, FreeVariation(tokens, rq))

\* manage_existing_user from there on (main.py:2846-2868)
FinishManageExistingUser ==
    \E i \in 1..Len(inflight) :
        /\ inflight[i].rq.endpoint = "manage-existing-user"
        /\ Finished(i, DefaultUp, ManageExistingUserFound(links, tokens, inflight[i].rq,
                                                          inflight[i].variation))

InitLinks ==
    /\ links \in {<<>>, <<Link(L1, "b@x.com")>>}
    /\ tokens \in {<<>>, <<Token("a+fastapi@x.com", "S1", "pw")>>}
    /\ req = DefaultReq
    /\ up = DefaultUp
    /\ phase = "done"
    /\ resp = NoResponse
    /\ out = <<>>
    /\ resolved = <<>>
    /\ inflight = <<>>

NextLinks ==
    \/ StartGenerateLink
    \/ FinishGenerateLink
    \/ StartManageExistingUser
    \/ FinishManageExistingUser

SpecLinks == InitLinks /\ [][NextLinks]_vars

\* C24: under any sequence and any interleaving of generate-link and
\* manage-existing-user requests, each a lookup followed later by an insert,
\* no two LinkRecords hold the same e-mail.
C24_OneLinkPerEmail ==
    \A i, j \in 1..Len(links) : links[i].email = links[j].email => i = j

\* db.commit() of a handler that read the UserToken rows as `read` and changed
\* them in its own session to `written`: the access_token of each row it
\* changed is written over whatever the table holds by now, the rows it did
\* not change are left as they are
Committed(ts, read, written) ==
    [k \in 1..Len(ts) |->
        IF k <= Len(read) /\ written[k].access_token # read[k].access_token
        THEN [ts[k] EXCEPT !.access_token = written[k].access_token]
        ELSE ts[k]]

\* what the upstream answers to a dashboard fetch: a page, a short page or an
\* error, with or without a new session cookie under either name
RotatingUpstreams ==
    {[DefaultUp EXCEPT !.status = st, !.body = Page, !.set_lms = c, !.set_sid = d]
        : st \in {200, 500}, c \in {"", "R1", "R2"}, d \in {"", "R3"}}

\* dashboard_proxy up to its queries (main.py:339-344)
StartDashboard ==
    \E rq \in To("dashboard-proxy") :
        /\ Len(inflight) < MaxInflight
        /\ inflight' = Append(inflight, [rq |-> rq, existing_link |-> <<>>,
                                         variation |-> 0, read |-> tokens])
        /\ UNCHANGED <<links, tokens, phase, req, up, resp, out, resolved>>

\* dashboard_proxy from there on: the fetch with the cookie it read, the
\* commit of a new cookie, the response (main.py:346-881)
FinishDashboard ==
    \E i \in 1..Len(inflight) : \E u \in RotatingUpstreams :
        /\ inflight[i].rq.endpoint = "dashboard-proxy"
        /\ LET e == DashboardProxy(links, inflight[i].read, inflight[i].rq, u)
           IN  Finished(i, u, [e EXCEPT !.tokens = Committed(tokens, inflight[i].read,
                                                             e.tokens)])

InitRotate ==
    /\ links = <<Link(L1, "a@x.com")>>
    /\ tokens = <<Token("a@x.com", "S1", "pw")>>
    /\ req = DefaultReq
    /\ up = DefaultUp
    /\ phase = "done"
    /\ resp = NoResponse
    /\ out = <<>>
    /\ resolved = <<>>
    /\ inflight = <<>>

NextRotate == StartDashboard \/ FinishDashboard

SpecRotate == InitRotate /\ [][NextRotate]_vars

\* the session cookie the upstream set in its answer, "" when it set none
ReceivedCookie(u) == IF u.set_lms # "" THEN u.set_lms ELSE u.set_sid

\* C25: of dashboard-proxy requests for one link_id in progress at the same
\* time, each commit of a request that fetched with the cookie it had read and
\* received another session cookie leaves that cookie in the SessionRecord:
\* the record holds the value of the request that committed last, not the
\* value from before the fetch, and a request that starts afterwards reads
\* that value.
C25_LastWriteWins ==
    [][\A i \in 1..Len(inflight) :
         ( /\ Len(inflight') = Len(inflight) - 1
           /\ req' = inflight[i].rq /\ req'.endpoint = "dashboard-proxy"
           /\ out' # <<>> /\ out'[1].lms_sessionid = inflight[i].read[1].access_token
           /\ ReceivedCookie(up') # ""
           /\ ReceivedCookie(up') # out'[1].lms_sessionid )
         => /\ tokens'[1].access_token = ReceivedCookie(up')
            /\ tokens'[1].access_token # out'[1].lms_sessionid]_vars

(***************************************************************************)
(* Whose session a fetch carries: one request to a proxy entry point, for  *)
(* either link, with or without session cookies of its own, against       *)
(* stored sessions of both users.                                          *)
(***************************************************************************)
SessionDatabases ==
    { LoggedIn,
      [links |-> TwoLinks,
       tokens |-> <<Token("b@x.com", "S2", "pw"), Token("a@x.com", "S1", "pw")>>],
      [links |-> TwoLinks,
       tokens |-> <<Token("a@x.com", "session_based", "password123"),
                    Token("b@x.com", "S2", "pw")>>] }

InitSession ==
    \E db \in SessionDatabases, e \in {"nav-get", "nav-post", "dashboard-proxy"},
       id \in {L1, L2}, ck \in {"", "S2", "S7"},
       st \in {200, 302}, b \in {Filler, Page}, lms \in {"", "R1"}, sid \in {"", "R3"},
       final \in {<<>>, LearnerDashboardUrl}, mfe \in {200, 404}, f \in {0, 1} :
        Drawn(db,
              IF e = "dashboard-proxy"
              THEN [DefaultReq EXCEPT !.endpoint = e, !.arg = id, !.ck_lms = ck, !.ck_sid = ck]
              ELSE [DefaultReq EXCEPT !.method = IF e = "nav-get" THEN "GET" ELSE "POST",
                                      !.referer = ProxyUrl("dashboard-proxy") \o id,
                                      !.ck_lms = ck, !.ck_sid = ck],
              [DefaultUp EXCEPT !.status = st, !.body = b,
                                !.location = IF st = 302 THEN <<"/", "login">> ELSE <<>>,
                                !.set_lms = lms, !.set_sid = sid, !.final_url = final,
                                !.mfe_status = mfe, !.mfe_body = Page, !.fails = f])

SpecSession == InitSession /\ [][NextDocument]_vars

\* this step is a proxy entry point handling its request with upstream calls
ProxyFetched ==
    /\ phase = "ready" /\ phase' = "done"
    /\ req.endpoint \in {"openedx-proxy", "dashboard-proxy"}
    /\ out' # <<>>

\* the session_cookie of the SessionRecord of the e-mail of link_id's LinkRecord,
\* before the step
StoredCookie(link_id) ==
    tokens[TokenByEmail(tokens, links[LinkById(links, link_id)].email)].access_token

\* C26 (as stated): every upstream fetch made by dashboard-proxy, navigation
\* GET or navigation POST for a request resolved to link_id L carries under
\* lms_sessionid and under sessionid exactly the session_cookie of the
\* SessionRecord of the e-mail of L's LinkRecord.
C26_ExactlyStoredCookie ==
    [][ProxyFetched =>
         \A n \in 1..Len(out') :
            /\ out'[n].lms_sessionid = StoredCookie(resolved')
            /\ out'[n].sessionid = StoredCookie(resolved')]_vars

\* C26 (amended): the first fetch of the handler carries under both names
\* exactly the session_cookie of the SessionRecord of the e-mail of L's
\* LinkRecord; a further fetch of the same handler carries under each name
\* that cookie or the one the upstream set under that name in its answer to
\* the first.  No fetch carries the cookie of another e-mail's SessionRecord
\* or a session cookie of the inbound request.
C26_SessionIsolation ==
    [][ProxyFetched =>
         /\ out'[1].lms_sessionid = StoredCookie(resolved')
         /\ out'[1].sessionid = StoredCookie(resolved')
         /\ \A n \in 2..Len(out') :
              /\ out'[n].lms_sessionid \in {StoredCookie(resolved'), up.set_lms} \ {""}
              /\ out'[n].sessionid \in {StoredCookie(resolved'), up.set_sid} \ {""}]_vars

\* a request for L1 that carried the session cookie of the other user was
\* fetched twice by dashboard-proxy, the second time with the cookies the
\* upstream had just set
C26_Witness ==
    /\ phase = "done" /\ req.endpoint = "dashboard-proxy" /\ req.arg = L1
    /\ req.ck_lms = "S2"
    /\ Len(out) = 2
    /\ out[1].lms_sessionid = "S1" /\ out[1].sessionid = "S1"
    /\ out[2].lms_sessionid = "R1" /\ out[2].sessionid = "R3"

\* C27: no upstream fetch made by dashboard-proxy, navigation GET or
\* navigation POST carries the placeholder "session_based" as its session
\* cookie.
C27_NoSentinelSent ==
    (ProxyDone /\ out # <<>>) =>
        \A n \in 1..Len(out) :
            /\ out[n].lms_sessionid # "session_based"
            /\ out[n].sessionid # "session_based"

(***************************************************************************)
(* The browser between /dashboard-proxy/{link_id} and /access/{link_id}:   *)
(* it asks for the dashboard of a link and follows every redirect it gets  *)
(* to one of the two entry points; the upstream answers each request as it *)
(* likes.                                                                  *)
(***************************************************************************)
AccessUrl(id) ==
    FASTAPI_PUBLIC_BASE_URL \o <<"/", "access", "/">> \o id \o <<"?", "format=redirect">>

\* the browser has not asked yet, or holds a redirect to the dashboard proxy of id
ToDashboard(id) ==
    \/ resp = NoResponse /\ req.arg = id
    \/ resp.kind = "redirect" /\ resp.location = ProxyUrl("dashboard-proxy") \o id

\* GET /dashboard-proxy/{id}
BrowserDashboard ==
    \E id \in {L1, L2} :
        /\ ToDashboard(id)
        /\ \E u \in Upstreams([DefaultReq EXCEPT !.endpoint = "dashboard-proxy"]) :
              LET rq == [DefaultReq EXCEPT !.endpoint = "dashboard-proxy", !.arg = id]
              IN  Handled(rq, u, DashboardProxy(links, tokens, rq, u), id)

\* GET /access/{id}?format=redirect, after the redirect of the dashboard proxy
BrowserAccess ==
    \E id \in {L1, L2} :
        /\ resp.kind = "redirect" /\ resp.location = AccessUrl(id)
        /\ \E u \in Upstreams([DefaultReq EXCEPT !.endpoint = "access"]) :
              LET rq == [DefaultReq EXCEPT !.endpoint = "access", !.arg = id,
                                           !.format = "redirect"]
              IN  Handled(rq, u, AccessLink(links, tokens, rq, u), id)

InitChain ==
    /\ links = TwoLinks
    /\ tokens \in {<<>>, <<Token("a@x.com", "S1", "pw")>>,
                   <<Token("b@x.com", "session_based", "password123")>>}
    /\ req \in {[DefaultReq EXCEPT !.endpoint = "dashboard-proxy", !.arg = id] : id \in {L1, L2}}
    /\ up = DefaultUp
    /\ phase = "done"
    /\ resp = NoResponse
    /\ out = <<>>
    /\ resolved = <<>>
    /\ inflight = <<>>

NextChain == BrowserDashboard \/ BrowserAccess

\* the browser follows a redirect as long as it holds one
SpecChain ==
    InitChain /\ [][NextChain]_vars /\ WF_vars(BrowserDashboard) /\ WF_vars(BrowserAccess)

\* C28: whatever the upstream does, the chain of redirects between
\* /dashboard-proxy/{link_id} and /access/{link_id} eventually reaches a
\* response that is not a redirect.
C28_ChainEnds == <>(resp # NoResponse /\ resp.kind # "redirect")

(***************************************************************************)
(* CSRF values of a navigation POST.                                       *)
(***************************************************************************)
\* the four places an upstream request carries a CSRF value
CsrfCarried(o) == <<o.csrftoken, o.edxcsrftoken, o.x_csrftoken, o.x_csrf_token>>

ProxiedPageReferer(id) ==
    /\ StartsWith(req.referer, ProxyUrl("openedx-proxy"))
    /\ \E i \in 1..Len(req.referer) :
          /\ req.referer[i] = "?"
          /\ \A j \in 1..(i - 1) : req.referer[j] # "?"
          /\ LET query == Split0(SubSeq(req.referer, i + 1, Len(req.referer)), <<"#">>)
             IN  \/ StartsWith(query, <<"link_id=">> \o id)
                     /\ Len(query) = 1 + Len(id)
                 \/ StartsWith(query, <<"link_id=">> \o id \o <<"&">>)
                 \/ Contains(query, <<"&", "link_id=">> \o id \o <<"&">>)
                 \/ /\ Contains(query, <<"&", "link_id=">> \o id)
                    /\ SubSeq(query, Len(query) - Len(id) - 1, Len(query))
                          = <<"&", "link_id=">> \o id

\* C30: a navigation request whose Referer is
\* {proxyBase}/openedx-proxy/<p>?...link_id=L... resolves to L for every path
\* <p>, also one that holds a segment named access or dashboard-proxy.
C30_ProxiedRefererResolves ==
    \A id \in {L1, L2} :
        (NavDone /\ ~StaticGet /\ ProxiedPageReferer(id)) => resolved = id

=============================================================================
